---- MODULE Spec2Model ----
(***************************************************************************)
(* SpaceX exploratory-data-analysis scripts: each script is a linear run   *)
(* fetch -> (fetch reference tables) -> process -> report -> plot -> done. *)
(* The model keeps the JSON feed as tagged values, the reference tables as *)
(* id-keyed functions, and one run's position in main().                   *)
(***************************************************************************)
EXTENDS Integers, Sequences, FiniteSets, TLC

VARIABLES script, api, pc, launches, payloads_data, rockets_data,
          launchpads_data, result, exc, sample_count, completed, io_log,
          quicksort_ties

vars == <<script, api, pc, launches, payloads_data, rockets_data,
          launchpads_data, result, exc, sample_count, completed, io_log,
          quicksort_ties>>

\* ------------------------------------------------------------------ bounds

\* Largest number of launch events in one feed.
MaxLaunches == 2

\* ------------------------------------------------------- JSON / Python values

JNull == [kind |-> "null"]
JStr(s) == [kind |-> "str", s |-> s]
JNum(n) == [kind |-> "num", n |-> n]
JBool(b) == [kind |-> "bool", b |-> b]
JDict(d) == [kind |-> "dict", d |-> d]
JList(l) == [kind |-> "list", l |-> l]

\* None as the value of a processing function.
NoResult == [kind |-> "none"]

\* The empty Python dict {}.
EmptyDict == JDict(<<>>)

\* Python truthiness: None, False, 0, "", [] and {} are falsy.
Truthy(v) ==
    CASE v.kind = "null" -> FALSE
      [] v.kind = "bool" -> v.b
      [] v.kind = "num" -> v.n # 0
      [] v.kind = "str" -> v.s # ""
      [] v.kind = "list" -> Len(v.l) > 0
      [] v.kind = "dict" -> DOMAIN v.d # {}

\* dict.get(key, default): the default only replaces an ABSENT key; a key that
\* is present with value None yields None.
Get(d, key, default) == IF key \in DOMAIN d THEN d[key] ELSE default

\* str(x) for the values the scripts apply it to: str(None) is "None", str of a
\* string is the string itself.
PyStr(v) ==
    CASE v.kind = "null" -> "None"
      [] v.kind = "str" -> v.s
      [] v.kind = "bool" -> IF v.b THEN "True" ELSE "False"
      [] OTHER -> "<object>"

\* Python's `needle in haystack` on strings.
StrContains(haystack, needle) ==
    \E i \in 1..(Len(haystack) - Len(needle) + 1) :
        SubSeq(haystack, i, i + Len(needle) - 1) = needle

\* str.startswith(prefix).
StartsWith(s, prefix) ==
    Len(s) >= Len(prefix) /\ SubSeq(s, 1, Len(prefix)) = prefix

\* ------------------------------------------------------------ the scripts

\* Scripts whose main() substitutes generated sample data (eda_spacex_api.py
\* and spacex_orbit_success_analysis.py).
FallbackScripts == {"eda_spacex_api", "spacex_orbit_success_analysis"}

\* Scripts whose main() calls obtener_datos_spacex and returns when it gave None.
PayloadScripts == {"payload_vs_outcome_scatter", "max_payload_boosters",
                   "nasa_payload_mass", "payload_vs_orbit", "flight_vs_orbit"}
SiteScripts == {"launch_sites_analysis", "launch_sites_cca",
                "highest_success_ratio_piechart"}
LandingScripts == {"landing_outcomes_ranking", "first_ground_landing",
                   "failed_landings_2015"}
OutcomeScripts == {"mission_outcomes"}
BoosterScripts == {"f9_v11_payload_mass"}
ReturnScripts ==
    PayloadScripts \cup SiteScripts \cup LandingScripts \cup OutcomeScripts
        \cup BoosterScripts

\* launch_sites_pattern.py: its main() returns on None as well, and then runs
\* its search function once per pattern.
PatternScripts == {"launch_sites_pattern"}

Scripts == FallbackScripts \cup ReturnScripts \cup PatternScripts

\* Which reference feeds each script requests (the obtener_datos_* it calls).
UsesPayloads == {"payload_vs_outcome_scatter", "max_payload_boosters",
                 "nasa_payload_mass", "payload_vs_orbit", "flight_vs_orbit",
                 "f9_v11_payload_mass"}
UsesRockets == {"max_payload_boosters", "nasa_payload_mass", "failed_landings_2015",
                "f9_v11_payload_mass"}
UsesLaunchpads == {"payload_vs_outcome_scatter", "launch_sites_analysis",
                   "launch_sites_cca", "highest_success_ratio_piechart",
                   "failed_landings_2015"}

\* ------------------------------------------------- the API's possible answers

\* The /payloads feed, already keyed by id as obtener_datos_payloads returns
\* it.  A key a payload does not have is simply not a field of its record.
\* "p_missing" is an id no table holds.
PayloadsFull ==
    [p \in {"p1", "p2"} |->
        IF p = "p1"
        THEN [id |-> JStr("p1"), name |-> JStr("CRS-1"), mass_kg |-> JNum(500),
              orbit |-> JStr("LEO"), customers |-> JList(<<JStr("NASA (CRS)")>>)]
        ELSE [id |-> JStr("p2"), name |-> JStr("SES-8"), mass_kg |-> JNum(300),
              orbit |-> JStr("GTO"), customers |-> JList(<<JStr("SES")>>)]]

PayloadsOdd ==
    [p \in {"p1", "p2"} |->
        IF p = "p1"
        THEN [id |-> JStr("p1"), name |-> JStr("Dragon"), mass_kg |-> JNull,
              customers |-> JNull]
        ELSE [id |-> JStr("p2"), name |-> JStr("Test"), mass_kg |-> JNum(-100),
              orbit |-> JNull, customers |-> JList(<<>>)]]

PayloadsMixed ==
    [p \in {"p1", "p2"} |->
        IF p = "p1"
        THEN [id |-> JStr("p1"), mass_kg |-> JNum(0), orbit |-> JStr("ISS"),
              customers |-> JList(<<JStr("SpaceX"), JStr("Nasa")>>)]
        ELSE [id |-> JStr("p2"), name |-> JStr("SES-9"), mass_kg |-> JNum(500),
              orbit |-> JStr("LEO"), customers |-> JList(<<JStr("SES")>>)]]

\* Payloads whose masses and sums fall on the bounds of the scatter's ranges.
PayloadsLight ==
    [p \in {"p1", "p2"} |->
        IF p = "p1"
        THEN [id |-> JStr("p1"), name |-> JStr("Orbcomm"), mass_kg |-> JNum(1000),
              orbit |-> JStr("LEO"), customers |-> JList(<<JStr("Orbcomm")>>)]
        ELSE [id |-> JStr("p2"), name |-> JStr("Thaicom"), mass_kg |-> JNum(2000),
              orbit |-> JStr("GTO"), customers |-> JList(<<JStr("Thaicom")>>)]]

PayloadsMedium ==
    [p \in {"p1", "p2"} |->
        IF p = "p1"
        THEN [id |-> JStr("p1"), name |-> JStr("Intelsat"), mass_kg |-> JNum(6000),
              orbit |-> JStr("GTO"), customers |-> JList(<<JStr("Intelsat")>>)]
        ELSE [id |-> JStr("p2"), name |-> JStr("Echostar"), mass_kg |-> JNum(4000),
              orbit |-> JStr("GTO"), customers |-> JList(<<JStr("Echostar")>>)]]

PayloadsHeavy ==
    [p \in {"p1", "p2"} |->
        IF p = "p1"
        THEN [id |-> JStr("p1"), name |-> JStr("Starlink"), mass_kg |-> JNum(20000),
              orbit |-> JStr("VLEO"), customers |-> JList(<<JStr("SpaceX")>>)]
        ELSE [id |-> JStr("p2"), name |-> JStr("Iridium"), mass_kg |-> JNum(9999),
              orbit |-> JStr("PO"), customers |-> JList(<<JStr("Iridium")>>)]]

\* What GET /payloads can give: a request error, or one of the tables.
PayloadAnswers == {[ok |-> FALSE, table |-> <<>>],
                   [ok |-> TRUE, table |-> PayloadsFull],
                   [ok |-> TRUE, table |-> PayloadsOdd],
                   [ok |-> TRUE, table |-> PayloadsMixed]}

ScatterPayloadAnswers ==
    PayloadAnswers \cup {[ok |-> TRUE, table |-> PayloadsLight],
                         [ok |-> TRUE, table |-> PayloadsMedium],
                         [ok |-> TRUE, table |-> PayloadsHeavy]}

RocketsFull ==
    [r \in {"r1", "r2"} |->
        IF r = "r1"
        THEN [id |-> JStr("r1"), name |-> JStr("Falcon 9"), type |-> JStr("rocket")]
        ELSE [id |-> JStr("r2"), name |-> JStr("Falcon Heavy")]]

RocketAnswers == {[ok |-> FALSE, table |-> <<>>],
                  [ok |-> TRUE, table |-> RocketsFull]}

\* A /rockets feed whose names tell the booster versions apart.
RocketsVersions ==
    [r \in {"r1", "r2"} |->
        IF r = "r1"
        THEN [id |-> JStr("r1"), name |-> JStr("F9 v1.1")]
        ELSE [id |-> JStr("r2"), name |-> JStr("Falcon 9 Block 5")]]

\* The answers to the script that selects launches by booster version.
BoosterRocketAnswers ==
    RocketAnswers \cup {[ok |-> TRUE, table |-> RocketsVersions]}

LaunchpadsFull ==
    [l \in {"l1", "l2"} |->
        IF l = "l1"
        THEN [id |-> JStr("l1"), name |-> JStr("CCAFS SLC 40"),
              full_name |-> JStr("Cape Canaveral Space Force Station"),
              locality |-> JStr("Cape Canaveral"), region |-> JStr("Florida")]
        ELSE [id |-> JStr("l2"), name |-> JStr("VAFB SLC 4E"),
              full_name |-> JStr("Vandenberg Space Force Base"),
              region |-> JStr("California")]]

LaunchpadAnswers == {[ok |-> FALSE, table |-> <<>>],
                     [ok |-> TRUE, table |-> LaunchpadsFull]}

\* A /launchpads feed with a site name in lower case and a Kennedy site.
LaunchpadsOdd ==
    [l \in {"l1", "l2"} |->
        IF l = "l1"
        THEN [id |-> JStr("l1"), name |-> JStr("ccafs slc 40"),
              full_name |-> JStr("Cape Canaveral Space Force Station"),
              locality |-> JStr("Cape Canaveral"), region |-> JStr("Florida")]
        ELSE [id |-> JStr("l2"), name |-> JStr("KSC LC 39A"),
              full_name |-> JStr("Kennedy Space Center"),
              locality |-> JStr("Cape Canaveral"), region |-> JStr("Florida")]]

\* The answers to the scripts that search the site names by prefix.
PrefixLaunchpadAnswers ==
    LaunchpadAnswers \cup {[ok |-> TRUE, table |-> LaunchpadsOdd]}

\* One launch of the /launches feed, without its flight number.
Shape(date, success, rocket, launchpad, payloads, cores) ==
    [date_utc |-> JStr(date), success |-> success, rocket |-> rocket,
     launchpad |-> launchpad, payloads |-> payloads, cores |-> cores]

Ids(seq) == JList([i \in 1..Len(seq) |-> JStr(seq[i])])

\* One core sub-record; a key the core does not have is not a field.
Core(landing_success, landing_type) ==
    JDict([core |-> JStr("B1019"), landing_success |-> landing_success,
           landing_type |-> landing_type, reused |-> JBool(FALSE)])
CoreNoKeys == JDict([core |-> JStr("B0003")])

NoCores == JList(<<>>)

\* A rocket reference that is the embedded object instead of an id.
F9 == JDict([name |-> JStr("Falcon 9")])

\* Launches that differ in their payload, rocket and launchpad references.
PayloadShapes ==
    {Shape("2013-12-03T22:41:00.000Z", JBool(TRUE), JStr("r1"), JStr("l1"),
           Ids(<<"p1">>), NoCores),
     Shape("2015-06-15T10:00:00.000Z", JBool(TRUE), JStr("r1"), JStr("l1"),
           Ids(<<"p1", "p2">>), NoCores),
     Shape("2016-03-04T23:35:00.000Z", JBool(FALSE), JStr("r2"), JStr("l2"),
           Ids(<<"p2", "p1">>), NoCores),
     Shape("2017-03-20T00:00:00.000Z", JBool(TRUE), JStr("r_missing"),
           JStr("l_missing"), Ids(<<"p_missing">>), NoCores),
     Shape("2018-01-01T00:00:00.000Z", JNull, JNull, JNull,
           Ids(<<"p_missing", "p2">>), NoCores),
     Shape("2010-06-04T18:45:00.000Z", JBool(TRUE), JStr("r1"), JStr("l2"),
           Ids(<<>>), NoCores),
     Shape("2010-01-01T00:00:00.000Z", JBool(FALSE), JStr("r1"), JStr("l1"),
           JNull, JNull),
     Shape("2019-05-24T02:30:00.000Z", JBool(TRUE), F9,
           JDict([name |-> JStr("CCAFS SLC 40")]), Ids(<<"p1">>), NoCores)}

\* The launches of f9_v11_payload_mass: one or two payloads on either rocket,
\* references no table holds, no payload at all.
BoosterShapes ==
    {Shape("2013-12-03T22:41:00.000Z", JBool(TRUE), JStr("r1"), JStr("l1"),
           Ids(<<"p1">>), NoCores),
     Shape("2016-03-04T23:35:00.000Z", JBool(FALSE), JStr("r2"), JStr("l2"),
           Ids(<<"p2", "p1">>), NoCores),
     Shape("2017-03-20T00:00:00.000Z", JBool(TRUE), JStr("r_missing"),
           JStr("l_missing"), Ids(<<"p1">>), NoCores),
     Shape("2010-06-04T18:45:00.000Z", JBool(TRUE), JStr("r1"), JStr("l2"),
           Ids(<<"p_missing">>), NoCores),
     Shape("2010-01-01T00:00:00.000Z", JNull, JStr("r2"), JStr("l1"),
           JNull, JNull)}

\* Launches that differ in their launchpad reference and success flag.
SiteShapes ==
    {Shape("2013-12-03T22:41:00.000Z", JBool(TRUE), JStr("r1"), JStr("l1"),
           Ids(<<"p1">>), NoCores),
     Shape("2015-06-15T10:00:00.000Z", JBool(FALSE), JStr("r1"), JStr("l1"),
           Ids(<<"p1">>), NoCores),
     Shape("2016-03-04T23:35:00.000Z", JBool(TRUE), JStr("r1"), JStr("l2"),
           Ids(<<"p2">>), NoCores),
     Shape("2017-03-20T00:00:00.000Z", JNull, JStr("r1"), JStr("l2"),
           Ids(<<"p2">>), NoCores),
     Shape("2018-01-01T00:00:00.000Z", JBool(TRUE), JStr("r1"), JStr("l_missing"),
           Ids(<<>>), NoCores),
     Shape("2010-01-01T00:00:00.000Z", JBool(FALSE), JNull, JNull,
           JNull, JNull),
     Shape("2019-05-24T02:30:00.000Z", JBool(TRUE), F9,
           JDict([name |-> JStr("CCAFS SLC 40")]), Ids(<<"p1">>), NoCores)}

\* The launches of launch_sites_pattern: one per launchpad, one whose
\* launchpad no table holds, one with an embedded launchpad.
PatternShapes ==
    {Shape("2013-12-03T22:41:00.000Z", JBool(TRUE), JStr("r1"), JStr("l1"),
           Ids(<<"p1">>), NoCores),
     Shape("2016-03-04T23:35:00.000Z", JBool(TRUE), JStr("r1"), JStr("l2"),
           Ids(<<"p2">>), NoCores),
     Shape("2018-01-01T00:00:00.000Z", JBool(TRUE), JStr("r1"), JStr("l_missing"),
           Ids(<<>>), NoCores),
     Shape("2019-05-24T02:30:00.000Z", JBool(TRUE), F9,
           JDict([name |-> JStr("CCAFS SLC 40")]), Ids(<<"p1">>), NoCores)}

\* Launches that differ in their date and in their cores' landing fields.
LandingShapes ==
    {Shape("2010-01-01T00:00:00.000Z", JBool(TRUE), JStr("r1"), JStr("l1"),
           Ids(<<>>), JList(<<Core(JBool(TRUE), JStr("RTLS"))>>)),
     Shape("2010-06-04T00:00:00.000Z", JBool(TRUE), JStr("r1"), JStr("l1"),
           Ids(<<>>), JList(<<Core(JNull, JNull)>>)),
     Shape("2015-01-10T09:47:00.000Z", JBool(TRUE), JStr("r1"), JStr("l1"),
           Ids(<<>>), JList(<<Core(JBool(FALSE), JStr("ASDS")),
                              Core(JBool(TRUE), JNull)>>)),
     Shape("2015-06-15T10:00:00.000Z", JBool(FALSE), JStr("r_missing"), JNull,
           Ids(<<>>), JList(<<Core(JBool(TRUE), JStr("ASDS")),
                              Core(JBool(FALSE), JStr("Ocean"))>>)),
     Shape("2015-12-22T01:29:00.000Z", JBool(TRUE), JStr("r1"), JStr("l2"),
           Ids(<<>>), JList(<<Core(JBool(TRUE), JStr("RTLS")),
                              Core(JBool(FALSE), JStr("RTLS"))>>)),
     Shape("2016-03-04T23:35:00.000Z", JBool(TRUE), JStr("r2"), JStr("l1"),
           Ids(<<>>), JList(<<Core(JBool(TRUE), JStr("Ocean")), CoreNoKeys>>)),
     Shape("2017-03-20T00:00:00.000Z", JBool(TRUE), JStr("r1"), JStr("l1"),
           Ids(<<>>), JList(<<Core(JBool(TRUE), JStr("parachute")),
                              Core(JBool(FALSE), JStr("parachute"))>>)),
     Shape("2017-03-20T14:00:00.000Z", JBool(TRUE), JStr("r1"), JStr("l1"),
           Ids(<<>>), JList(<<Core(JBool(TRUE), JNull),
                              Core(JNull, JStr("ASDS"))>>)),
     Shape("2018-01-01T00:00:00.000Z", JBool(TRUE), JStr("r1"), JStr("l1"),
           Ids(<<>>), JNull),
     Shape("2015-04-14T20:10:00.000Z", JNull, JStr("r1"), JStr("l_missing"),
           Ids(<<>>), JList(<<Core(JBool(FALSE), JStr("ASDS"))>>)),
     Shape("2015-02-11T23:03:00.000Z", JBool(TRUE), JStr("r1"), JStr("l1"),
           Ids(<<>>), JList(<<Core(JNull, JStr("ASDS"))>>))}

\* Launches as eda_spacex_api reads them: rocket, launchpad and payloads may be
\* embedded objects, bare ids, null, or missing keys.
Embedded(mass) == JDict([id |-> JStr("p9"), mass_kg |-> mass, orbit |-> JStr("LEO")])
EmbeddedNoOrbit == JDict([id |-> JStr("p8"), mass_kg |-> JNum(200)])

EmbeddedShapes ==
    {Shape("2013-12-03T22:41:00.000Z", JBool(TRUE), F9,
           JDict([name |-> JStr("KSC LC 39A")]), JList(<<Embedded(JNum(500))>>), NoCores),
     Shape("2015-06-15T10:00:00.000Z", JBool(TRUE), F9, JNull,
           JList(<<Embedded(JNum(500)), Embedded(JNull)>>), NoCores),
     Shape("2016-03-04T23:35:00.000Z", JBool(FALSE), F9, JStr("l1"),
           JList(<<Embedded(JNum(300)), EmbeddedNoOrbit>>), NoCores),
     Shape("2018-02-06T20:45:00.000Z", JBool(TRUE),
           JDict([name |-> JStr("Falcon Heavy")]), JDict([name |-> JStr("KSC LC 39A")]),
           JList(<<Embedded(JNum(500))>>), NoCores),
     Shape("2017-03-20T00:00:00.000Z", JBool(TRUE), JStr("r1"), JStr("l1"),
           Ids(<<"p1", "p2">>), NoCores),
     Shape("2010-06-04T18:45:00.000Z", JNull, F9, EmptyDict,
           JList(<<Embedded(JNum(-100)), JStr("p1")>>), NoCores),
     Shape("2010-01-01T00:00:00.000Z", JBool(TRUE), F9, JStr("l1"), JNull, NoCores),
     Shape("2012-05-22T07:44:00.000Z", JBool(TRUE), JNull, JNull,
           JList(<<Embedded(JNum(500))>>), NoCores),
     Shape("2014-04-18T19:25:00.000Z", JNull, F9,
           JDict([name |-> JStr("CCAFS SLC 40")]), JList(<<Embedded(JNum(300))>>), NoCores),
     [date_utc |-> JStr("2012-10-08T00:35:00.000Z")]}

\* Launches that differ in their success flag.
OutcomeShapes ==
    {Shape("2013-12-03T22:41:00.000Z", JBool(TRUE), JStr("r1"), JStr("l1"),
           Ids(<<"p1">>), NoCores),
     Shape("2015-06-28T14:21:00.000Z", JBool(FALSE), JStr("r1"), JStr("l1"),
           Ids(<<"p1">>), NoCores),
     Shape("2022-12-01T00:00:00.000Z", JNull, JStr("r1"), JStr("l1"),
           Ids(<<"p1">>), NoCores)}

ShapesOf(s) ==
    CASE s \in PayloadScripts -> PayloadShapes
      [] s \in SiteScripts -> SiteShapes
      [] s \in PatternScripts -> PatternShapes
      [] s \in BoosterScripts -> BoosterShapes
      [] s \in LandingScripts -> LandingShapes
      [] s \in OutcomeScripts -> OutcomeShapes
      [] s = "eda_spacex_api" -> EmbeddedShapes
      [] s = "spacex_orbit_success_analysis" -> EmbeddedShapes

WithFlight(shape, n) ==
    [k \in DOMAIN shape \cup {"flight_number"} |->
        IF k = "flight_number" THEN JNum(n) ELSE shape[k]]

SeqsUpTo(S, n) == UNION {[1..k -> S] : k \in 0..n}

\* Feeds of at most MaxLaunches launches; flight numbers are unique within a
\* feed and run up or down the feed.
Feeds(S) ==
    {[i \in 1..Len(q) |-> WithFlight(q[i], IF up THEN i ELSE Len(q) - i + 1)] :
        q \in SeqsUpTo(S, MaxLaunches), up \in BOOLEAN}

\* A body that is a JSON object instead of the list of launches: the empty
\* object and an object of scalar values.
ObjectFeeds == {EmptyDict, JDict([error |-> JStr("Not Found")])}

\* response.json() of GET /launches, or a request error.
LaunchAnswers(s) ==
    {[ok |-> FALSE, body |-> JNull]}
        \cup {[ok |-> TRUE, body |-> JList(f)] : f \in Feeds(ShapesOf(s))}
        \cup {[ok |-> TRUE, body |-> o] : o \in ObjectFeeds}

NoAnswer == [ok |-> FALSE, table |-> <<>>]

\* Everything the API can answer during one run of script s.  A reference feed
\* the script never requests is fixed.
Worlds(s) ==
    {[launches |-> la, payloads |-> pa, rockets |-> ra, launchpads |-> lp] :
        la \in LaunchAnswers(s),
        pa \in IF s = "payload_vs_outcome_scatter" THEN ScatterPayloadAnswers
               ELSE IF s \in UsesPayloads \/ s = "spacex_orbit_success_analysis"
               THEN PayloadAnswers ELSE {NoAnswer},
        ra \in IF s \in BoosterScripts THEN BoosterRocketAnswers
               ELSE IF s \in UsesRockets THEN RocketAnswers ELSE {NoAnswer},
        lp \in IF s = "launch_sites_cca" THEN PrefixLaunchpadAnswers
               ELSE IF s \in UsesLaunchpads THEN LaunchpadAnswers ELSE {NoAnswer}}

\* ------------------------------------------------------ shared row helpers

Unknown == JStr("Unknown")

RECURSIVE SumSeq(_)
SumSeq(q) == IF Len(q) = 0 THEN 0 ELSE Head(q) + SumSeq(Tail(q))

\* Notation: the sequence of F(x) for x along q.
MapSeq(q, F(_)) == [i \in 1..Len(q) |-> F(q[i])]

\* `payload_id in payloads_data`, `rocket_id in rockets_data`: only a string
\* that is a key of the table is found.
InTable(ref, table) == ref.kind = "str" /\ ref.s \in DOMAIN table

\* mutant of ResolvedPayloads: the payloads come out in reverse order.
ResolvedPayloadsReversed(payload_ids, table) ==
    IF ~Truthy(payload_ids) THEN <<>>
    ELSE LET found == SelectSeq(payload_ids.l, LAMBDA p : InTable(p, table))
         IN  [i \in 1..Len(found) |-> table[found[Len(found) + 1 - i].s]]

\* extraer_payload_info: the payloads of the list that the table holds, in
\* the list's order; [] for a null or empty list.
ResolvedPayloads(payload_ids, table) ==
    IF ~Truthy(payload_ids) THEN <<>>
    ELSE MapSeq(SelectSeq(payload_ids.l, LAMBDA p : InTable(p, table)),
                LAMBDA p : table[p.s])

extraer_payload_info(payload_ids, table) ==
    MapSeq(ResolvedPayloads(payload_ids, table),
           LAMBDA payload : [mass_kg |-> Get(payload, "mass_kg", JNum(0)),
                             customers |-> Get(payload, "customers", JList(<<>>)),
                             name |-> Get(payload, "name", Unknown)])

\* mutant of MassContribution: the `mass > 0` test is dropped.
MassContributionUnguarded(payload) ==
    LET mass == Get(payload, "mass_kg", JNum(0))
    IN  IF mass.kind # "null" THEN mass.n ELSE 0

\* The loop body `if mass is not None and mass > 0: total_payload_mass += mass`.
MassContribution(payload) ==
    LET mass == Get(payload, "mass_kg", JNum(0))
    IN  IF mass.kind # "null" /\ mass.n > 0 THEN mass.n ELSE 0

total_payload_mass(payload_info) == SumSeq(MapSeq(payload_info, MassContribution))

\* `rocket_id and rocket_id in rockets_data`: the membership test hashes the
\* reference, and a non-empty embedded object (a dict) is unhashable: TypeError.
Unhashable(ref) == Truthy(ref) /\ ref.kind \in {"dict", "list"}

AnyUnhashable(feed, key) == \E i \in 1..Len(feed) : Unhashable(feed[i][key])

\* extraer_rocket_info / extraer_launchpad_info: the table's record, or None
\* for a falsy reference or an id the table lacks.
extraer_info(ref, table) ==
    IF Truthy(ref) /\ InTable(ref, table) THEN JDict(table[ref.s]) ELSE JNull

\* mutant of InfoField: the resolved record's field is never read.
InfoFieldUnknown(info, key) == Unknown

\* `x.get(key, 'Unknown') if x else 'Unknown'`.
InfoField(info, key) ==
    IF Truthy(info) THEN Get(info.d, key, Unknown) ELSE Unknown

\* df['success'].astype(bool) on a column of True / False / None.
AsBool(v) == JBool(Truthy(v))

FlightNumbers(rows) == MapSeq(rows, LAMBDA r : r.flight_number)

\* What a processing function gives back: its value, or the exception it raised.
Returned(v) == [exc |-> "none", value |-> v]
Raised(e) == [exc |-> e, value |-> NoResult]

\* ------------------------------------------- payload_vs_outcome_scatter.py

\* One pass of the loop over df.iterrows(): the row's total and its record.
ScatterRow(launch, payloads_table, launchpads_table) ==
    LET payload_info == extraer_payload_info(launch.payloads, payloads_table)
        launchpad_info == extraer_info(launch.launchpad, launchpads_table)
    IN  [flight_number |-> launch.flight_number,
         date_utc |-> launch.date_utc,
         payload_mass |-> total_payload_mass(payload_info),
         payload_names |-> MapSeq(SelectSeq(payload_info,
                                            LAMBDA p : MassContribution(p) > 0),
                                  LAMBDA p : p.name),
         success |-> AsBool(launch.success),
         launch_site_name |-> InfoField(launchpad_info, "name"),
         launch_site_full_name |-> InfoField(launchpad_info, "full_name"),
         launch_site_locality |-> InfoField(launchpad_info, "locality"),
         launch_site_region |-> InfoField(launchpad_info, "region")]

\* mutant of HasPayloadMass: every launch is appended.
HasPayloadMassAlways(row) == TRUE

\* `if total_payload_mass > 0: launch_data.append(...)`.
HasPayloadMass(row) == row.payload_mass > 0

procesar_datos_para_scatter(feed, payloads_table, launchpads_table) ==
    IF Len(feed) = 0 THEN Raised("KeyError")
    ELSE IF AnyUnhashable(feed, "launchpad") THEN Raised("TypeError")
    ELSE LET all == MapSeq(feed, LAMBDA l : ScatterRow(l, payloads_table, launchpads_table))
         IN  Returned([kind |-> "table", source |-> "api",
                       totals |-> MapSeq(all, LAMBDA r : r.payload_mass),
                       rows |-> SelectSeq(all, HasPayloadMass)])

\* The ranges of the report and of the chart's panels.
payload_ranges ==
    <<[min_mass |-> 0, max_mass |-> 1000, range_label |-> "0-1000 kg"],
      [min_mass |-> 1000, max_mass |-> 3000, range_label |-> "1000-3000 kg"],
      [min_mass |-> 3000, max_mass |-> 6000, range_label |-> "3000-6000 kg"],
      [min_mass |-> 6000, max_mass |-> 10000, range_label |-> "6000-10000 kg"],
      [min_mass |-> 10000, max_mass |-> 20000, range_label |-> "10000+ kg"]>>

\* mutant of range_mask: the last range stops below its upper bound too.
range_mask_bounded(payload_mass, min_mass, max_mass) ==
    payload_mass >= min_mass /\ payload_mass < max_mass

\* `if max_mass == 20000: mask = payload_mass >= min_mass`, else
\* `(payload_mass >= min_mass) & (payload_mass < max_mass)`.
range_mask(payload_mass, min_mass, max_mass) ==
    IF max_mass = 20000 THEN payload_mass >= min_mass
    ELSE payload_mass >= min_mass /\ payload_mass < max_mass

\* The rows of the table the range keeps, in the table's order.
df_range(df_launches, range) ==
    SelectSeq(df_launches.rows,
              LAMBDA row : range_mask(row.payload_mass, range.min_mass,
                                      range.max_mass))

\* What mostrar_estadisticas_rangos prints for each range: the number of
\* launches, of successes and of failures ("No data" is a total of 0).
mostrar_estadisticas_rangos(df_launches) ==
    [k \in 1..Len(payload_ranges) |->
        LET rows == df_range(df_launches, payload_ranges[k])
        IN  [range_label |-> payload_ranges[k].range_label,
             total |-> Len(rows),
             success_count |-> Len(SelectSeq(rows, LAMBDA row :
                                                row.success = JBool(TRUE))),
             failure_count |-> Len(SelectSeq(rows, LAMBDA row :
                                                row.success = JBool(FALSE)))]]

\* The flight numbers crear_scatter_plot_interactivo draws in each of the
\* five range panels.
crear_scatter_plot_interactivo(df_launches) ==
    [k \in 1..Len(payload_ranges) |->
        FlightNumbers(df_range(df_launches, payload_ranges[k]))]

\* --------------------------------------------------- max_payload_boosters.py

MaxPayloadRow(launch, payloads_table, rockets_table) ==
    LET payload_info == extraer_payload_info(launch.payloads, payloads_table)
        rocket_info == extraer_info(launch.rocket, rockets_table)
    IN  [flight_number |-> launch.flight_number,
         date_utc |-> launch.date_utc,
         payload_mass |-> total_payload_mass(payload_info),
         rocket_name |-> InfoField(rocket_info, "name"),
         success |-> AsBool(launch.success)]

\* mutant of MaxOf: the least mass.
MaxOfLeast(S) == CHOOSE m \in S : \A n \in S : m <= n

\* `max(launch['payload_mass'] for launch in launch_payloads)`.
MaxOf(S) == CHOOSE m \in S : \A n \in S : n <= m

buscar_max_payload_boosters(feed, payloads_table, rockets_table) ==
    IF Len(feed) = 0 THEN Raised("KeyError")
    ELSE IF AnyUnhashable(feed, "rocket") THEN Raised("TypeError")
    ELSE LET all == MapSeq(feed, LAMBDA l : MaxPayloadRow(l, payloads_table, rockets_table))
             launch_payloads == SelectSeq(all, HasPayloadMass)
             max_payload_mass == MaxOf({launch_payloads[i].payload_mass :
                                           i \in 1..Len(launch_payloads)})
         IN  IF Len(launch_payloads) = 0
             THEN Returned([kind |-> "none", source |-> "api",
                            totals |-> MapSeq(all, LAMBDA r : r.payload_mass),
                            rows |-> <<>>])
             ELSE Returned([kind |-> "table", source |-> "api",
                            totals |-> MapSeq(all, LAMBDA r : r.payload_mass),
                            rows |-> launch_payloads,
                            max_payload_mass |-> max_payload_mass,
                            max_payload_launches |->
                                SelectSeq(launch_payloads,
                                          LAMBDA r : r.payload_mass = max_payload_mass)])

\* ------------------------------------- flight_vs_orbit.py, payload_vs_orbit.py

\* mutant of extraer_orbit: the orbit of the last payload reference.
extraer_orbit_last(payload_ids, table) ==
    IF Truthy(payload_ids) /\ InTable(payload_ids.l[Len(payload_ids.l)], table)
    THEN Get(table[payload_ids.l[Len(payload_ids.l)].s], "orbit", Unknown)
    ELSE Unknown

\* extraer_orbit: the orbit of the FIRST payload reference only.
extraer_orbit(payload_ids, table) ==
    IF Truthy(payload_ids) /\ InTable(payload_ids.l[1], table)
    THEN Get(table[payload_ids.l[1].s], "orbit", Unknown)
    ELSE Unknown

\* extraer_mass (payload_vs_orbit.py): the mass of the FIRST payload reference
\* only, as the table has it (it may be null or negative).
extraer_mass(payload_ids, table) ==
    IF Truthy(payload_ids) /\ InTable(payload_ids.l[1], table)
    THEN Get(table[payload_ids.l[1].s], "mass_kg", JNum(0))
    ELSE JNum(0)

OrbitRow(launch, table) ==
    [flight_number |-> launch.flight_number,
     date_utc |-> launch.date_utc,
     orbit_type |-> extraer_orbit(launch.payloads, table),
     payload_mass |-> extraer_mass(launch.payloads, table),
     success |-> AsBool(launch.success)]

\* procesar_datos of both scripts: one row per launch, then the rows whose
\* orbit_type is not 'Unknown' (flight_vs_orbit.py has no payload_mass column;
\* nothing of that script reads the field).
procesar_datos(feed, table) ==
    IF Len(feed) = 0 THEN Raised("KeyError")
    ELSE LET all == MapSeq(feed, LAMBDA l : OrbitRow(l, table))
         IN  Returned([kind |-> "table", source |-> "api",
                       all |-> all,
                       rows |-> SelectSeq(all, LAMBDA r : r.orbit_type # Unknown)])

\* --------------------------------------------------------- nasa_payload_mass.py

UpperMap ==
    [c \in {"a", "b", "c", "d", "e", "f", "g", "h", "i", "j", "k", "l", "m", "n",
            "o", "p", "q", "r", "s", "t", "u", "v", "w", "x", "y", "z"} |->
        CASE c = "a" -> "A" [] c = "b" -> "B" [] c = "c" -> "C" [] c = "d" -> "D"
          [] c = "e" -> "E" [] c = "f" -> "F" [] c = "g" -> "G" [] c = "h" -> "H"
          [] c = "i" -> "I" [] c = "j" -> "J" [] c = "k" -> "K" [] c = "l" -> "L"
          [] c = "m" -> "M" [] c = "n" -> "N" [] c = "o" -> "O" [] c = "p" -> "P"
          [] c = "q" -> "Q" [] c = "r" -> "R" [] c = "s" -> "S" [] c = "t" -> "T"
          [] c = "u" -> "U" [] c = "v" -> "V" [] c = "w" -> "W" [] c = "x" -> "X"
          [] c = "y" -> "Y" [] c = "z" -> "Z"]

\* str.upper().
RECURSIVE Upper(_)
Upper(s) ==
    IF Len(s) = 0 THEN ""
    ELSE LET c == SubSeq(s, 1, 1)
         IN  (IF c \in DOMAIN UpperMap THEN UpperMap[c] ELSE c)
                 \o Upper(SubSeq(s, 2, Len(s)))

\* `any('NASA' in customer.upper() for customer in customers)`; iterating a
\* customers value of None raises TypeError.
CustomersIterable(payload) == payload.customers.kind = "list"

IsNasa(payload) ==
    /\ payload.customers.kind = "list"
    /\ \E i \in 1..Len(payload.customers.l) :
          StrContains(Upper(payload.customers.l[i].s), "NASA")

NasaRow(launch, payloads_table, rockets_table) ==
    LET payload_info == extraer_payload_info(launch.payloads, payloads_table)
        rocket_info == extraer_info(launch.rocket, rockets_table)
    IN  [flight_number |-> launch.flight_number,
         date |-> JStr(SubSeq(launch.date_utc.s, 1, 10)),
         payload_info |-> payload_info,
         nasa_mass |-> total_payload_mass(SelectSeq(payload_info, IsNasa)),
         rocket_name |-> InfoField(rocket_info, "name"),
         success |-> AsBool(launch.success)]

calcular_payload_nasa(feed, payloads_table, rockets_table) ==
    IF Len(feed) = 0 THEN Raised("KeyError")
    ELSE IF AnyUnhashable(feed, "rocket") THEN Raised("TypeError")
    ELSE LET all == MapSeq(feed, LAMBDA l : NasaRow(l, payloads_table, rockets_table))
             df_successful == SelectSeq(all, LAMBDA r : r.success = JBool(TRUE))
             nasa_launches == SelectSeq(df_successful, LAMBDA r : r.nasa_mass > 0)
         IN  IF \E i \in 1..Len(df_successful) :
                   \E j \in 1..Len(df_successful[i].payload_info) :
                       ~CustomersIterable(df_successful[i].payload_info[j])
             THEN Raised("TypeError")
             ELSE Returned([kind |-> "table", source |-> "api",
                            total_nasa_mass |->
                                SumSeq(MapSeq(nasa_launches, LAMBDA r : r.nasa_mass)),
                            rows |-> nasa_launches,
                            df_successful |-> FlightNumbers(df_successful),
                            payload_info |->
                                MapSeq(df_successful, LAMBDA r : r.payload_info)])

\* ------------------------------------------------------------------- dates

DigitVal(c) ==
    CASE c = "0" -> 0 [] c = "1" -> 1 [] c = "2" -> 2 [] c = "3" -> 3 [] c = "4" -> 4
      [] c = "5" -> 5 [] c = "6" -> 6 [] c = "7" -> 7 [] c = "8" -> 8 [] c = "9" -> 9

RECURSIVE ToInt(_)
ToInt(s) ==
    IF Len(s) = 0 THEN 0
    ELSE 10 * ToInt(SubSeq(s, 1, Len(s) - 1)) + DigitVal(SubSeq(s, Len(s), Len(s)))

\* pd.to_datetime of "YYYY-MM-DD" or "YYYY-MM-DDThh:mm:ss.000Z": the instant as
\* <<year, month, day, hour, minute, second>>; a bare date is its midnight.
to_datetime(s) ==
    <<ToInt(SubSeq(s, 1, 4)), ToInt(SubSeq(s, 6, 7)), ToInt(SubSeq(s, 9, 10))>>
        \o (IF Len(s) >= 19
            THEN <<ToInt(SubSeq(s, 12, 13)), ToInt(SubSeq(s, 15, 16)),
                   ToInt(SubSeq(s, 18, 19))>>
            ELSE <<0, 0, 0>>)

\* Timestamp comparison a <= b.
RECURSIVE TsLeq(_, _)
TsLeq(a, b) ==
    IF Len(a) = 0 THEN TRUE
    ELSE IF Head(a) # Head(b) THEN Head(a) < Head(b)
    ELSE TsLeq(Tail(a), Tail(b))

\* .dt.year
Year(s) == to_datetime(s)[1]

\* The code points of the characters of a timestamp string.
CharOrd(c) ==
    CASE c = "-" -> 45 [] c = "." -> 46 [] c = ":" -> 58 [] c = "T" -> 84
      [] c = "Z" -> 90 [] OTHER -> 48 + DigitVal(c)

\* Python's str comparison a <= b.
RECURSIVE StrLeq(_, _)
StrLeq(a, b) ==
    IF Len(a) = 0 THEN TRUE
    ELSE IF Len(b) = 0 THEN FALSE
    ELSE IF SubSeq(a, 1, 1) # SubSeq(b, 1, 1)
         THEN CharOrd(SubSeq(a, 1, 1)) < CharOrd(SubSeq(b, 1, 1))
    ELSE StrLeq(SubSeq(a, 2, Len(a)), SubSeq(b, 2, Len(b)))

\* list.sort(key=lambda x: x['date_utc']): a stable sort by the date string.
RECURSIVE InsertByDate(_, _)
InsertByDate(sorted, row) ==
    IF Len(sorted) = 0 THEN <<row>>
    ELSE IF StrLeq(sorted[Len(sorted)].date_utc.s, row.date_utc.s)
         THEN Append(sorted, row)
    ELSE Append(InsertByDate(SubSeq(sorted, 1, Len(sorted) - 1), row),
                sorted[Len(sorted)])

\* mutant of SortByDate: the list is left in input order.
SortByDateNone(rows) == rows

RECURSIVE SortByDate(_)
SortByDate(rows) ==
    IF Len(rows) = 0 THEN <<>>
    ELSE InsertByDate(SortByDate(SubSeq(rows, 1, Len(rows) - 1)), rows[Len(rows)])

\* ------------------- launch_sites_analysis.py, launch_sites_cca.py, highest_...

SiteRow(launch, launchpads_table) ==
    LET launchpad_info == extraer_info(launch.launchpad, launchpads_table)
    IN  [flight_number |-> launch.flight_number,
         date_utc |-> launch.date_utc,
         launchpad |-> launch.launchpad,
         success |-> launch.success,
         launch_site_name |-> InfoField(launchpad_info, "name"),
         launch_site_full_name |-> InfoField(launchpad_info, "full_name"),
         launch_site_locality |-> InfoField(launchpad_info, "locality"),
         launch_site_region |-> InfoField(launchpad_info, "region")]

\* analizar_sitios_lanzamiento: the rows whose site name is not 'Unknown'.
analizar_sitios_lanzamiento(feed, launchpads_table) ==
    IF Len(feed) = 0 THEN Raised("KeyError")
    ELSE IF AnyUnhashable(feed, "launchpad") THEN Raised("TypeError")
    ELSE LET all == MapSeq(feed, LAMBDA l : SiteRow(l, launchpads_table))
         IN  Returned([kind |-> "table", source |-> "api", all |-> all,
                       rows |-> SelectSeq(all, LAMBDA r : r.launch_site_name # Unknown)])

\* .str.startswith(prefix, na=False)
StrStartsWith(v, prefix) == v.kind = "str" /\ StartsWith(v.s, prefix)

buscar_sitios_cca(feed, launchpads_table) ==
    IF Len(feed) = 0 THEN Raised("KeyError")
    ELSE IF AnyUnhashable(feed, "launchpad") THEN Raised("TypeError")
    ELSE LET all == MapSeq(feed, LAMBDA l : SiteRow(l, launchpads_table))
         IN  Returned([kind |-> "table", source |-> "api", all |-> all,
                       rows |-> SelectSeq(all, LAMBDA r :
                                    StrStartsWith(r.launch_site_name, "CCA"))])

\* mutant of buscar_sitios_patron: the names are compared in upper case.
buscar_sitios_patron_upper(feed, launchpads_table, pattern) ==
    IF Len(feed) = 0 THEN Raised("KeyError")
    ELSE IF AnyUnhashable(feed, "launchpad") THEN Raised("TypeError")
    ELSE LET all == MapSeq(feed, LAMBDA l : SiteRow(l, launchpads_table))
         IN  Returned([kind |-> "table", source |-> "api", all |-> all,
                       pattern |-> pattern,
                       rows |-> SelectSeq(all, LAMBDA r :
                                    /\ r.launch_site_name.kind = "str"
                                    /\ StartsWith(Upper(r.launch_site_name.s),
                                                  pattern))])

\* buscar_sitios_patron(launches, pattern) of launch_sites_pattern.py.
buscar_sitios_patron(feed, launchpads_table, pattern) ==
    IF Len(feed) = 0 THEN Raised("KeyError")
    ELSE IF AnyUnhashable(feed, "launchpad") THEN Raised("TypeError")
    ELSE LET all == MapSeq(feed, LAMBDA l : SiteRow(l, launchpads_table))
         IN  Returned([kind |-> "table", source |-> "api", all |-> all,
                       pattern |-> pattern,
                       rows |-> SelectSeq(all, LAMBDA r :
                                    StrStartsWith(r.launch_site_name, pattern))])

\* The patterns main() of launch_sites_pattern.py searches, in its order.
Patterns == <<"CCA", "CCSFS", "KSC">>

\* site_success.iloc[0] of an empty frame raises IndexError.
BestSiteExists(df_clean) == Len(df_clean) > 0

\* encontrar_sitio_mayor_exito: per site the successful and total launches; the
\* best site is one whose success rate is the highest.
encontrar_sitio_mayor_exito(feed, launchpads_table) ==
    IF Len(feed) = 0 THEN Raised("KeyError")
    ELSE IF AnyUnhashable(feed, "launchpad") THEN Raised("TypeError")
    ELSE LET all == MapSeq(feed, LAMBDA l : SiteRow(l, launchpads_table))
             df_clean == SelectSeq(all, LAMBDA r : r.launch_site_name # Unknown)
             sites == {df_clean[i].launch_site_name : i \in 1..Len(df_clean)}
             count(s) == Cardinality({i \in 1..Len(df_clean) :
                                         df_clean[i].launch_site_name = s})
             sum(s) == Cardinality({i \in 1..Len(df_clean) :
                                       /\ df_clean[i].launch_site_name = s
                                       /\ Truthy(df_clean[i].success)})
             site_success == [s \in sites |->
                                 [successful_launches |-> sum(s),
                                  total_launches |-> count(s)]]
         IN  IF ~BestSiteExists(df_clean) THEN Raised("IndexError")
             ELSE Returned([kind |-> "table", source |-> "api", all |-> all,
                            rows |-> df_clean,
                            site_success |-> site_success,
                            best_sites |->
                                {s \in sites : \A t \in sites :
                                    sum(t) * count(s) <= sum(s) * count(t)}])

\* ------------------------------------------------------- mission_outcomes.py

\* success_count / total_missions with no valid mission raises ZeroDivisionError.
calcular_resultados_misiones(feed) ==
    IF Len(feed) = 0 THEN Raised("KeyError")
    ELSE LET df_valid == SelectSeq(feed, LAMBDA l : l.success # JNull)
             successful_missions == SelectSeq(df_valid, LAMBDA l : l.success = JBool(TRUE))
             failed_missions == SelectSeq(df_valid, LAMBDA l : l.success = JBool(FALSE))
         IN  IF Len(df_valid) = 0 THEN Raised("ZeroDivisionError")
             ELSE Returned([kind |-> "table", source |-> "api",
                            rows |-> df_valid,
                            total_missions |-> Len(df_valid),
                            successful_missions |-> Len(successful_missions),
                            failed_missions |-> Len(failed_missions),
                            successful_data |-> successful_missions,
                            failed_data |-> failed_missions])

\* ------------------------------------------------ landing_outcomes_ranking.py

start_date == "2010-06-04"
end_date == "2017-03-20"

\* mutant of InDateRange: the end bound is exclusive.
InDateRangeOpenEnd(launch) ==
    /\ TsLeq(to_datetime(start_date), to_datetime(launch.date_utc.s))
    /\ TsLeq(to_datetime(launch.date_utc.s), to_datetime(end_date))
    /\ to_datetime(launch.date_utc.s) # to_datetime(end_date)

\* df[(df['date_utc'] >= start_date) & (df['date_utc'] <= end_date)]
InDateRange(launch) ==
    /\ TsLeq(to_datetime(start_date), to_datetime(launch.date_utc.s))
    /\ TsLeq(to_datetime(launch.date_utc.s), to_datetime(end_date))

\* mutant of outcome_of: the failure branch files an ocean landing under other.
outcome_of_no_ocean(landing_success, landing_type) ==
    IF Truthy(landing_success)
    THEN CASE landing_type = JStr("RTLS") -> "Success (ground pad)"
           [] landing_type = JStr("ASDS") -> "Success (drone ship)"
           [] landing_type = JStr("Ocean") -> "Success (ocean)"
           [] OTHER -> "Success (other)"
    ELSE CASE landing_type = JStr("RTLS") -> "Failure (ground pad)"
           [] landing_type = JStr("ASDS") -> "Failure (drone ship)"
           [] OTHER -> "Failure (other)"

\* The if/elif chain on (landing_success, landing_type).
outcome_of(landing_success, landing_type) ==
    IF Truthy(landing_success)
    THEN CASE landing_type = JStr("RTLS") -> "Success (ground pad)"
           [] landing_type = JStr("ASDS") -> "Success (drone ship)"
           [] landing_type = JStr("Ocean") -> "Success (ocean)"
           [] OTHER -> "Success (other)"
    ELSE CASE landing_type = JStr("RTLS") -> "Failure (ground pad)"
           [] landing_type = JStr("ASDS") -> "Failure (drone ship)"
           [] landing_type = JStr("Ocean") -> "Failure (ocean)"
           [] OTHER -> "Failure (other)"

RECURSIVE Flatten(_)
Flatten(qq) == IF Len(qq) = 0 THEN <<>> ELSE Head(qq) \o Flatten(Tail(qq))

\* `if cores and len(cores) > 0: for core in cores`
CoresOf(launch) == IF Truthy(launch.cores) THEN launch.cores.l ELSE <<>>

LandingRow(launch, core) ==
    LET landing_success == Get(core.d, "landing_success", JBool(FALSE))
        landing_type == Get(core.d, "landing_type", JStr(""))
    IN  [flight_number |-> launch.flight_number,
         date_utc |-> launch.date_utc,
         outcome |-> outcome_of(landing_success, landing_type),
         landing_success |-> landing_success,
         landing_type |-> landing_type,
         core_id |-> Get(core.d, "core", Unknown)]

\* The (launch, core) pairs the nested loops `for _, row in df.iterrows()` /
\* `for core in cores` visit, in the order they visit them.
CorePairs(feed) ==
    Flatten([i \in 1..Len(feed) |->
                [j \in 1..Len(CoresOf(feed[i])) |-> <<feed[i], CoresOf(feed[i])[j]>>]])

\* The distinct values of a column in the order of their first occurrence,
\* the order in which the hash table of value_counts hands out its keys.
RECURSIVE Distinct(_)
Distinct(items) ==
    IF Len(items) = 0 THEN <<>>
    ELSE LET front == Distinct(SubSeq(items, 1, Len(items) - 1))
             last == items[Len(items)]
         IN  IF \E i \in 1..Len(front) : front[i] = last THEN front
             ELSE Append(front, last)

Occurrences(items, v) == Cardinality({i \in 1..Len(items) : items[i] = v})

\* sort_values(ascending=False) with the default kind='quicksort', which is not
\* a stable sort: an entry goes behind every larger count, and behind or in
\* front of the equal counts as this build's quicksort leaves ties.
InsertByCount(sorted, e) ==
    LET ahead == {i \in 1..Len(sorted) :
                     \/ sorted[i].count > e.count
                     \/ sorted[i].count = e.count /\ quicksort_ties = "kept"}
        n == Cardinality(ahead)
    IN  SubSeq(sorted, 1, n) \o <<e>> \o SubSeq(sorted, n + 1, Len(sorted))

RECURSIVE SortByCount(_)
SortByCount(entries) ==
    IF Len(entries) = 0 THEN <<>>
    ELSE InsertByCount(SortByCount(SubSeq(entries, 1, Len(entries) - 1)),
                       entries[Len(entries)])

\* mutant of value_counts: value_counts(sort=False).
value_counts_unsorted(items) ==
    LET keys == Distinct(items)
    IN  [k \in 1..Len(keys) |->
            [value |-> keys[k], count |-> Occurrences(items, keys[k])]]

\* pd.Series(items).value_counts(): one (value, count) entry per distinct
\* value, sorted by descending count.
value_counts(items) ==
    LET keys == Distinct(items)
    IN  SortByCount([k \in 1..Len(keys) |->
                        [value |-> keys[k], count |-> Occurrences(items, keys[k])]])

clasificar_resultados_aterrizaje(feed) ==
    IF Len(feed) = 0 THEN Raised("KeyError")
    ELSE LET df_filtered == SelectSeq(feed, InDateRange)
             landing_outcomes == MapSeq(CorePairs(df_filtered),
                                       LAMBDA p : LandingRow(p[1], p[2]))
         IN  Returned([kind |-> "table", source |-> "api",
                       df_filtered |-> FlightNumbers(df_filtered),
                       rows |-> landing_outcomes,
                       outcome_counts |->
                           value_counts([i \in 1..Len(landing_outcomes) |->
                                            landing_outcomes[i].outcome])])

\* ------------------------------------------------- f9_v11_payload_mass.py

\* `if rocket_info and 'Falcon 9' in rocket_info.get('name', '')`.
IsFalcon9(rocket_info) ==
    /\ Truthy(rocket_info)
    /\ StrContains(Get(rocket_info.d, "name", JStr("")).s, "Falcon 9")

\* One row of the frame with the columns calcular_payload_f9_v11 adds.
BoosterRow(launch, payloads_table, rockets_table) ==
    LET payload_info == extraer_payload_info(launch.payloads, payloads_table)
        rocket_info == extraer_info(launch.rocket, rockets_table)
    IN  [flight_number |-> launch.flight_number,
         date_utc |-> launch.date_utc,
         rocket_info |-> rocket_info,
         payload_mass |-> total_payload_mass(payload_info),
         success |-> AsBool(launch.success)]

\* calcular_payload_f9_v11: the launches whose rocket name contains
\* 'Falcon 9', of those the ones whose payload masses add up to more than 0,
\* and the average of these totals, kept as the sum and the count it divides.
calcular_payload_f9_v11(feed, payloads_table, rockets_table) ==
    IF Len(feed) = 0 THEN Raised("KeyError")
    ELSE IF AnyUnhashable(feed, "rocket") THEN Raised("TypeError")
    ELSE LET all == MapSeq(feed, LAMBDA l : BoosterRow(l, payloads_table,
                                                       rockets_table))
             f9_launches == SelectSeq(all, LAMBDA r : IsFalcon9(r.rocket_info))
             valid == SelectSeq(f9_launches, LAMBDA r : r.payload_mass > 0)
             launch_details ==
                 MapSeq(valid, LAMBDA r : [flight_number |-> r.flight_number,
                                           date |-> SubSeq(r.date_utc.s, 1, 10),
                                           payload_mass |-> r.payload_mass,
                                           success |-> r.success])
         IN  IF Len(f9_launches) = 0 \/ Len(valid) = 0 THEN Returned(NoResult)
             ELSE Returned([kind |-> "table", source |-> "api", all |-> all,
                            rows |-> launch_details,
                            f9_launches |-> FlightNumbers(f9_launches),
                            average_payload_mass |->
                                [sum |-> SumSeq(MapSeq(valid,
                                                       LAMBDA r : r.payload_mass)),
                                 count |-> Len(valid)]])

\* ------------------------------- first_ground_landing.py, failed_landings_2015.py

ground_landing_types == {JStr("RTLS"), JStr("ASDS"), JStr("Ocean")}

GroundRow(launch, core) ==
    [flight_number |-> launch.flight_number,
     date_utc |-> launch.date_utc,
     landing_type |-> Get(core.d, "landing_type", JStr("")),
     landing_success |-> Get(core.d, "landing_success", JBool(FALSE)),
     landpad |-> Get(core.d, "landpad", Unknown),
     reused |-> Get(core.d, "reused", JBool(FALSE))]

buscar_primer_aterrizaje_exitoso(feed) ==
    IF Len(feed) = 0 THEN Raised("KeyError")
    ELSE LET df_with_cores == SelectSeq(feed, LAMBDA l : l.cores # JNull)
             found == SelectSeq(MapSeq(CorePairs(df_with_cores),
                                       LAMBDA p : GroundRow(p[1], p[2])),
                                LAMBDA r : /\ Truthy(r.landing_success)
                                           /\ r.landing_type \in ground_landing_types)
         IN  Returned([kind |-> "table", source |-> "api",
                       rows |-> SortByDate(found)])

\* mutant of buscar_aterrizajes_fallidos_2015: the launches of every year are
\* searched.
buscar_aterrizajes_fallidos_any_year(feed, rockets_table, launchpads_table) ==
    IF Len(feed) = 0 THEN Raised("KeyError")
    ELSE LET Row(launch, core) ==
                 LET rocket_info == extraer_info(launch.rocket, rockets_table)
                     launchpad_info == extraer_info(launch.launchpad, launchpads_table)
                 IN  [flight_number |-> launch.flight_number,
                      date_utc |-> launch.date_utc,
                      rocket_name |-> InfoField(rocket_info, "name"),
                      rocket_type |-> InfoField(rocket_info, "type"),
                      launch_site_name |-> InfoField(launchpad_info, "name"),
                      launch_site_full_name |-> InfoField(launchpad_info, "full_name"),
                      launch_site_locality |-> InfoField(launchpad_info, "locality"),
                      launch_site_region |-> InfoField(launchpad_info, "region"),
                      landing_type |-> Get(core.d, "landing_type", JStr("")),
                      landing_success |-> Get(core.d, "landing_success", JBool(FALSE)),
                      core_id |-> Get(core.d, "core", Unknown)]
             found == SelectSeq(MapSeq(CorePairs(feed), LAMBDA p : Row(p[1], p[2])),
                                LAMBDA r : /\ ~Truthy(r.landing_success)
                                           /\ r.landing_type = JStr("ASDS"))
         IN  IF AnyUnhashable(feed, "rocket") \/ AnyUnhashable(feed, "launchpad")
             THEN Raised("TypeError")
             ELSE Returned([kind |-> "table", source |-> "api",
                            rows |-> SortByDate(found)])

buscar_aterrizajes_fallidos_2015(feed, rockets_table, launchpads_table) ==
    IF Len(feed) = 0 THEN Raised("KeyError")
    ELSE LET df_2015 == SelectSeq(feed, LAMBDA l : Year(l.date_utc.s) = 2015)
             Row(launch, core) ==
                 LET rocket_info == extraer_info(launch.rocket, rockets_table)
                     launchpad_info == extraer_info(launch.launchpad, launchpads_table)
                 IN  [flight_number |-> launch.flight_number,
                      date_utc |-> launch.date_utc,
                      rocket_name |-> InfoField(rocket_info, "name"),
                      rocket_type |-> InfoField(rocket_info, "type"),
                      launch_site_name |-> InfoField(launchpad_info, "name"),
                      launch_site_full_name |-> InfoField(launchpad_info, "full_name"),
                      launch_site_locality |-> InfoField(launchpad_info, "locality"),
                      launch_site_region |-> InfoField(launchpad_info, "region"),
                      landing_type |-> Get(core.d, "landing_type", JStr("")),
                      landing_success |-> Get(core.d, "landing_success", JBool(FALSE)),
                      core_id |-> Get(core.d, "core", Unknown)]
             found == SelectSeq(MapSeq(CorePairs(df_2015), LAMBDA p : Row(p[1], p[2])),
                                LAMBDA r : /\ ~Truthy(r.landing_success)
                                           /\ r.landing_type = JStr("ASDS"))
         IN  IF AnyUnhashable(df_2015, "rocket") \/ AnyUnhashable(df_2015, "launchpad")
             THEN Raised("TypeError")
             ELSE Returned([kind |-> "table", source |-> "api",
                            rows |-> SortByDate(found)])

\* ----------------------------------------------------------- eda_spacex_api.py

\* `x.get('name', 'Unknown') if isinstance(x, dict) else str(x)`
NameOf(ref) ==
    IF ref.kind = "dict" THEN Get(ref.d, "name", Unknown) ELSE JStr(PyStr(ref))

\* The inner loop: an embedded payload adds its mass when `mass_kg and
\* mass_kg > 0`; a bare id adds nothing.
EmbeddedContribution(payload) ==
    IF payload.kind = "dict"
    THEN LET mass_kg == Get(payload.d, "mass_kg", JNull)
         IN  IF Truthy(mass_kg) /\ mass_kg.n > 0 THEN mass_kg.n ELSE 0
    ELSE 0

ApiRow(launch) ==
    LET rocket == Get(launch, "rocket", EmptyDict)
        launchpad == Get(launch, "launchpad", EmptyDict)
        payloads == Get(launch, "payloads", JList(<<>>))
        rocket_name == NameOf(rocket)
    IN  [FlightNumber |-> Get(launch, "flight_number", JNum(0)),
         LaunchSite |-> NameOf(launchpad),
         Success |-> Get(launch, "success", JBool(FALSE)),
         Date |-> Get(launch, "date_utc", JStr("")),
         Rocket |-> rocket_name,
         is_falcon9 |-> StrContains(rocket_name.s, "Falcon 9"),
         payloads |-> payloads]

\* `for payload in payloads` over None raises TypeError.
ApiRowMass(row) == SumSeq(MapSeq(row.payloads.l, EmbeddedContribution))

\* `if not launches_data: return None` comes first; iterating a JSON object
\* yields its keys, and `launch.get` on a str raises AttributeError.
process_api_data(launches_data) ==
    IF ~Truthy(launches_data) THEN Returned(NoResult)
    ELSE IF launches_data.kind = "dict" THEN Raised("AttributeError")
    ELSE LET all == MapSeq(launches_data.l, ApiRow)
             falcon9 == SelectSeq(all, LAMBDA r : r.is_falcon9)
             payload_data == SelectSeq(falcon9, LAMBDA r : ApiRowMass(r) > 0)
         IN  IF \E i \in 1..Len(falcon9) : falcon9[i].payloads.kind # "list"
             THEN Raised("TypeError")
             ELSE IF Len(payload_data) = 0 THEN Returned(NoResult)
             ELSE Returned([kind |-> "table", source |-> "api",
                            totals |-> MapSeq(falcon9, ApiRowMass),
                            rows |-> MapSeq(payload_data, LAMBDA r :
                                [FlightNumber |-> r.FlightNumber,
                                 LaunchSite |-> r.LaunchSite,
                                 PayloadMass |-> ApiRowMass(r),
                                 Success |-> r.Success,
                                 Date |-> r.Date,
                                 Rocket |-> r.Rocket])])

\* -------------------------------------------- spacex_orbit_success_analysis.py

\* fetch_payload_details: GET /payloads/<id>; None on any error.
fetch_payload_details(payload_id, answer) ==
    IF answer.ok /\ payload_id \in DOMAIN answer.table
    THEN JDict(answer.table[payload_id]) ELSE JNull

\* The rows one launch adds: one per payload that is an embedded object or an
\* id whose details could be fetched.
OrbitRowsOf(launch, answer) ==
    LET payloads == Get(launch, "payloads", JList(<<>>))
        details(p) == IF p.kind = "str" THEN fetch_payload_details(p.s, answer)
                      ELSE IF p.kind = "dict" THEN p ELSE JNull
        usable == SelectSeq(payloads.l, LAMBDA p :
                      IF p.kind = "str" THEN Truthy(details(p)) ELSE p.kind = "dict")
    IN  MapSeq(usable, LAMBDA p :
            [FlightNumber |-> Get(launch, "flight_number", JNum(0)),
             Orbit |-> Get(details(p).d, "orbit", Unknown),
             Success |-> Get(launch, "success", JBool(FALSE)),
             Date |-> Get(launch, "date_utc", JStr("")),
             PayloadID |-> IF p.kind = "str" THEN p ELSE Get(p.d, "id", Unknown)])

process_orbit_data(launches_data, answer) ==
    IF ~Truthy(launches_data) THEN Returned(NoResult)
    ELSE IF launches_data.kind = "dict" THEN Raised("AttributeError")
    ELSE IF \E i \in 1..Len(launches_data.l) :
               Get(launches_data.l[i], "payloads", JList(<<>>)).kind # "list"
         THEN Raised("TypeError")
         ELSE LET orbit_data == Flatten(MapSeq(launches_data.l,
                                               LAMBDA l : OrbitRowsOf(l, answer)))
              IN  IF Len(orbit_data) = 0 THEN Returned(NoResult)
                  ELSE Returned([kind |-> "table", source |-> "api",
                                 rows |-> orbit_data])

\* n_launches = 120 rows of create_realistic_sample_data; n_launches = 150 rows
\* of create_realistic_orbit_data.  The rows are seeded random draws and are
\* not modelled; the frame's length is.
SampleRows(s) == IF s = "eda_spacex_api" THEN 120 ELSE 150

SampleData(s) == [kind |-> "table", source |-> "sample", rows |-> <<>>,
                  length |-> SampleRows(s)]

\* len(df) of a processing result.
FrameLen(df) ==
    IF df.kind = "none" THEN 0
    ELSE IF df.source = "sample" THEN df.length ELSE Len(df.rows)

\* ------------------------------------------------------------- I/O history

\* requests.get(url): one entry per call, whatever its outcome.
Request(path) == "GET " \o path

\* mutant of Normalized: the payload table is requested again for every launch.
NormalizedWithRequests(n) ==
    [i \in 1..(2 * n) |-> IF i % 2 = 1 THEN "normalize" ELSE Request("/payloads")]

\* One entry per launch whose fields a processing step reads.
Normalized(n) == [i \in 1..n |-> "normalize"]

\* The obtener_datos_payloads / _rockets / _launchpads calls at the head of a
\* processing function, in the order of the calls.
TableRequests(s) ==
    (IF s \in UsesPayloads THEN <<Request("/payloads")>> ELSE <<>>)
        \o (IF s \in UsesRockets THEN <<Request("/rockets")>> ELSE <<>>)
        \o (IF s \in UsesLaunchpads THEN <<Request("/launchpads")>> ELSE <<>>)

\* fetch_payload_details(payload_id) for every payload of the list that is a
\* string, in the list's order.
PayloadRequests(payloads) ==
    MapSeq(SelectSeq(payloads, LAMBDA p : p.kind = "str"),
           LAMBDA p : Request("/payloads/" \o p.s))

\* The loop of process_orbit_data: per launch the reads of its fields, then
\* the payload loop with its requests; the loop ends at a launch whose
\* payloads value cannot be iterated.
RECURSIVE OrbitLog(_)
OrbitLog(feed) ==
    IF Len(feed) = 0 THEN <<>>
    ELSE LET payloads == Get(Head(feed), "payloads", JList(<<>>))
         IN  IF payloads.kind # "list" THEN <<"normalize">>
             ELSE <<"normalize">> \o PayloadRequests(payloads.l) \o OrbitLog(Tail(feed))

\* The loop of process_api_data: no request; the loop ends at a Falcon 9
\* launch whose payloads value cannot be iterated.
RECURSIVE ApiLog(_)
ApiLog(feed) ==
    IF Len(feed) = 0 THEN <<>>
    ELSE LET row == ApiRow(Head(feed))
         IN  IF row.is_falcon9 /\ row.payloads.kind # "list" THEN <<"normalize">>
             ELSE <<"normalize">> \o ApiLog(Tail(feed))

\* What the processing step of a fallback script adds to the history; a feed
\* that is an object raises before any launch is read.
ProcessedApiLog(s, launches_data) ==
    IF launches_data.kind # "list" THEN <<>>
    ELSE IF s = "eda_spacex_api" THEN ApiLog(launches_data.l)
    ELSE OrbitLog(launches_data.l)

\* ------------------------------------------------------------------- state

Init ==
    /\ script \in Scripts
    /\ api \in Worlds(script)
    /\ pc = "start"
    /\ launches = JNull
    /\ payloads_data = <<>>
    /\ rockets_data = <<>>
    /\ launchpads_data = <<>>
    /\ result = NoResult
    /\ exc = "none"
    /\ sample_count = 0
    /\ completed = FALSE
    /\ io_log = <<>>
    /\ quicksort_ties \in IF script = "landing_outcomes_ranking"
                         THEN {"kept", "reversed"} ELSE {"kept"}

\* mutant of FetchLaunches: a failed request is issued a second time.
FetchLaunchesRetry ==
    /\ pc = "start"
    /\ launches' = IF api.launches.ok THEN api.launches.body ELSE JNull
    /\ io_log' = IF api.launches.ok THEN Append(io_log, Request("/launches"))
                 ELSE io_log \o <<Request("/launches"), Request("/launches")>>
    /\ pc' = "fetched"
    /\ UNCHANGED <<script, api, quicksort_ties, payloads_data, rockets_data, launchpads_data,
                   result, exc, sample_count, completed>>

\* obtener_datos_spacex / fetch_spacex_data / fetch_spacex_launches: the feed
\* on success, None on a request error.
FetchLaunches ==
    /\ pc = "start"
    /\ launches' = IF api.launches.ok THEN api.launches.body ELSE JNull
    /\ io_log' = Append(io_log, Request("/launches"))
    /\ pc' = "fetched"
    /\ UNCHANGED <<script, api, quicksort_ties, payloads_data, rockets_data, launchpads_data,
                   result, exc, sample_count, completed>>

\* main(): `if launches is None: return`.
ReturnNoData ==
    /\ pc = "fetched"
    /\ script \in ReturnScripts \cup PatternScripts
    /\ launches = JNull
    /\ pc' = "returned"
    /\ UNCHANGED <<io_log, script, api, quicksort_ties, launches, payloads_data, rockets_data,
                   launchpads_data, result, exc, sample_count, completed>>

UsesTables(s) == s \in UsesPayloads \cup UsesRockets \cup UsesLaunchpads

\* obtener_datos_payloads / _rockets / _launchpads: the id-keyed table, or {}
\* on any error.
TableOf(answer) == IF answer.ok THEN answer.table ELSE <<>>

\* The reference tables the processing function requests before it touches
\* the launches.
FetchTables ==
    /\ pc = "fetched"
    /\ script \in ReturnScripts
    /\ UsesTables(script)
    /\ launches # JNull
    /\ payloads_data' = IF script \in UsesPayloads THEN TableOf(api.payloads) ELSE <<>>
    /\ rockets_data' = IF script \in UsesRockets THEN TableOf(api.rockets) ELSE <<>>
    /\ launchpads_data' = IF script \in UsesLaunchpads THEN TableOf(api.launchpads)
                          ELSE <<>>
    /\ io_log' = io_log \o TableRequests(script)
    /\ pc' = "tables"
    /\ UNCHANGED <<script, api, quicksort_ties, launches, result, exc, sample_count, completed>>

\* The processing function of each script that returns without data.
Processed(s, feed) ==
    CASE s = "payload_vs_outcome_scatter" ->
             procesar_datos_para_scatter(feed, payloads_data, launchpads_data)
      [] s = "max_payload_boosters" ->
             buscar_max_payload_boosters(feed, payloads_data, rockets_data)
      [] s = "nasa_payload_mass" ->
             calcular_payload_nasa(feed, payloads_data, rockets_data)
      [] s \in {"payload_vs_orbit", "flight_vs_orbit"} ->
             procesar_datos(feed, payloads_data)
      [] s = "launch_sites_analysis" ->
             analizar_sitios_lanzamiento(feed, launchpads_data)
      [] s = "launch_sites_cca" -> buscar_sitios_cca(feed, launchpads_data)
      [] s = "highest_success_ratio_piechart" ->
             encontrar_sitio_mayor_exito(feed, launchpads_data)
      [] s = "mission_outcomes" -> calcular_resultados_misiones(feed)
      [] s = "f9_v11_payload_mass" ->
             calcular_payload_f9_v11(feed, payloads_data, rockets_data)
      [] s = "landing_outcomes_ranking" -> clasificar_resultados_aterrizaje(feed)
      [] s = "first_ground_landing" -> buscar_primer_aterrizaje_exitoso(feed)
      [] s = "failed_landings_2015" ->
             buscar_aterrizajes_fallidos_2015(feed, rockets_data, launchpads_data)

ReadyToProcess ==
    IF UsesTables(script) THEN pc = "tables" ELSE pc = "fetched" /\ launches # JNull

\* df = pd.DataFrame(launches): the rows of a list; an object of scalar values
\* raises ValueError ("If using all scalar values, you must pass an index");
\* {} gives the same empty frame without columns as [].
DataFrameOf(launches_data) ==
    IF launches_data.kind = "list" THEN Returned(launches_data.l)
    ELSE IF Truthy(launches_data) THEN Raised("ValueError")
    ELSE Returned(<<>>)

\* mutant of Process: the pass pops every payload it resolves off the table.
ProcessPoppingPayloads ==
    /\ script \in ReturnScripts
    /\ ReadyToProcess
    /\ LET df == DataFrameOf(launches)
           r == IF df.exc # "none" THEN df ELSE Processed(script, df.value)
           refs == IF df.exc # "none" THEN {}
                   ELSE UNION {IF df.value[i].payloads.kind = "list"
                               THEN {df.value[i].payloads.l[k].s :
                                        k \in 1..Len(df.value[i].payloads.l)}
                               ELSE {} : i \in 1..Len(df.value)}
       IN  /\ result' = r.value
           /\ exc' = r.exc
           /\ pc' = IF r.exc = "none" THEN "processed" ELSE "raised"
           /\ io_log' = io_log \o (IF df.exc = "none" THEN Normalized(Len(df.value))
                                    ELSE <<>>)
           /\ payloads_data' = [k \in DOMAIN payloads_data \ refs |-> payloads_data[k]]
    /\ UNCHANGED <<script, api, quicksort_ties, launches, rockets_data,
                   launchpads_data, sample_count, completed>>

\* mutant of Process: the pass pops the launches off the list it was given.
ProcessConsuming ==
    /\ script \in ReturnScripts
    /\ ReadyToProcess
    /\ LET df == DataFrameOf(launches)
           r == IF df.exc # "none" THEN df ELSE Processed(script, df.value)
       IN  /\ result' = r.value
           /\ exc' = r.exc
           /\ pc' = IF r.exc = "none" THEN "processed" ELSE "raised"
           /\ io_log' = io_log \o (IF df.exc = "none" THEN Normalized(Len(df.value))
                                    ELSE <<>>)
    /\ launches' = IF launches.kind = "list" THEN JList(<<>>) ELSE launches
    /\ UNCHANGED <<script, api, quicksort_ties, payloads_data, rockets_data,
                   launchpads_data, sample_count, completed>>

Process ==
    /\ script \in ReturnScripts
    /\ ReadyToProcess
    /\ LET df == DataFrameOf(launches)
           r == IF df.exc # "none" THEN df ELSE Processed(script, df.value)
       IN  /\ result' = r.value
           /\ exc' = r.exc
           /\ pc' = IF r.exc = "none" THEN "processed" ELSE "raised"
           /\ io_log' = io_log \o (IF df.exc = "none" THEN Normalized(Len(df.value))
                                    ELSE <<>>)
    /\ UNCHANGED <<script, api, quicksort_ties, launches, payloads_data, rockets_data,
                   launchpads_data, sample_count, completed>>

\* Scripts whose main() returns when the processed frame is None or empty.
ReturnsOnEmpty == {"payload_vs_orbit", "flight_vs_orbit", "launch_sites_analysis",
                   "launch_sites_cca", "max_payload_boosters"}

HasShow == ReturnScripts \ {"payload_vs_orbit", "flight_vs_orbit"}
HasPlot == ReturnScripts \ {"launch_sites_cca"}

ReturnEmpty ==
    /\ pc = "processed"
    /\ script \in ReturnsOnEmpty
    /\ FrameLen(result) = 0
    /\ pc' = "returned"
    /\ UNCHANGED <<io_log, script, api, quicksort_ties, launches, payloads_data, rockets_data,
                   launchpads_data, result, exc, sample_count, completed>>

\* main() goes on past the processing function.
GoesOn == pc = "processed" /\ ~(script \in ReturnsOnEmpty /\ FrameLen(result) = 0)

\* What the mostrar_* function of a script raises on the processed data.
show_exc(s, df) ==
    CASE s = "payload_vs_outcome_scatter" /\ FrameLen(df) = 0 -> "KeyError"
      [] s = "landing_outcomes_ranking" /\ FrameLen(df) = 0 -> "ZeroDivisionError"
      [] s = "mission_outcomes" /\ (df.successful_missions = 0 \/ df.failed_missions = 0)
             -> "ValueError"
      [] OTHER -> "none"

\* mostrar_*: prints the report; the data is only read.
Show ==
    /\ script \in HasShow
    /\ GoesOn
    /\ exc' = show_exc(script, result)
    /\ pc' = IF show_exc(script, result) = "none" THEN "shown" ELSE "raised"
    /\ UNCHANGED <<io_log, script, api, quicksort_ties, launches, payloads_data, rockets_data,
                   launchpads_data, result, sample_count, completed>>

ReadyToPlot == IF script \in HasShow THEN pc = "shown" ELSE GoesOn

\* grafica_* / crear_*: draws the charts; the data is only read.
Plot ==
    /\ script \in HasPlot
    /\ ReadyToPlot
    /\ pc' = "plotted"
    /\ UNCHANGED <<io_log, script, api, quicksort_ties, launches, payloads_data, rockets_data,
                   launchpads_data, result, exc, sample_count, completed>>

ReadyToFinish == IF script \in HasPlot THEN pc = "plotted" ELSE pc = "shown"

\* The closing print of main().
Finish ==
    /\ script \in ReturnScripts
    /\ ReadyToFinish
    /\ pc' = "done"
    /\ completed' = TRUE
    /\ UNCHANGED <<io_log, script, api, quicksort_ties, launches, payloads_data, rockets_data,
                   launchpads_data, result, exc, sample_count>>

\* ------------------------------------------- main() of launch_sites_pattern.py

\* The searches main() has finished so far.
Searched == IF pc = "searching" THEN result.searches ELSE <<>>

\* One buscar_sitios_patron(launches, pattern) / mostrar_resultados pair of
\* main(): the search requests the launchpads itself, builds the frame and
\* filters it; the report only reads.  The closing print follows the third.
SearchPattern ==
    /\ script \in PatternScripts
    /\ pc \in {"fetched", "searching"}
    /\ launches # JNull
    /\ \E a \in PrefixLaunchpadAnswers :
          LET pattern == Patterns[Len(Searched) + 1]
              df == DataFrameOf(launches)
              r == IF df.exc # "none" THEN df
                   ELSE buscar_sitios_patron(df.value, TableOf(a), pattern)
              last == Len(Searched) + 1 = Len(Patterns)
          IN  /\ launchpads_data' = TableOf(a)
              /\ io_log' = io_log \o <<Request("/launchpads")>>
                               \o (IF df.exc = "none" THEN Normalized(Len(df.value))
                                   ELSE <<>>)
              /\ exc' = r.exc
              /\ result' = IF r.exc # "none" THEN r.value
                            ELSE [searches |-> Append(Searched,
                                                      [pattern |-> pattern,
                                                       all |-> r.value.all,
                                                       rows |-> r.value.rows])]
                                     @@ r.value
              /\ pc' = IF r.exc # "none" THEN "raised"
                       ELSE IF last THEN "done" ELSE "searching"
              /\ completed' = (r.exc = "none" /\ last)
    /\ UNCHANGED <<script, api, quicksort_ties, launches, payloads_data,
                   rockets_data, sample_count>>

\* -------- __main__ of eda_spacex_api.py and spacex_orbit_success_analysis.py

ProcessedApi(s, launches_data) ==
    IF s = "eda_spacex_api" THEN process_api_data(launches_data)
    ELSE process_orbit_data(launches_data, api.payloads)

\* `if launches_data: df = process_...(launches_data)`
ProcessApi ==
    /\ pc = "fetched"
    /\ script \in FallbackScripts
    /\ Truthy(launches)
    /\ LET r == ProcessedApi(script, launches)
       IN  /\ result' = r.value
           /\ exc' = r.exc
           /\ pc' = IF r.exc # "none" THEN "raised"
                    ELSE IF FrameLen(r.value) = 0 THEN "processed" ELSE "ready"
    /\ io_log' = io_log \o ProcessedApiLog(script, launches)
    /\ UNCHANGED <<script, api, quicksort_ties, launches, payloads_data, rockets_data,
                   launchpads_data, sample_count, completed>>

\* mutant of UseSampleNoFetch: the run ends without the sample data.
UseSampleNoFetchSkipped ==
    /\ pc = "fetched"
    /\ script \in FallbackScripts
    /\ ~Truthy(launches)
    /\ pc' = "done"
    /\ UNCHANGED <<io_log, script, api, quicksort_ties, launches, payloads_data, rockets_data,
                   launchpads_data, result, exc, sample_count, completed>>

\* `else: df = create_realistic_..._data()` after a fetch that gave nothing.
UseSampleNoFetch ==
    /\ pc = "fetched"
    /\ script \in FallbackScripts
    /\ ~Truthy(launches)
    /\ result' = SampleData(script)
    /\ sample_count' = sample_count + 1
    /\ pc' = "ready"
    /\ UNCHANGED <<io_log, script, api, quicksort_ties, launches, payloads_data, rockets_data,
                   launchpads_data, exc, completed>>

\* `if df is None or len(df) == 0: df = create_realistic_..._data()`
UseSampleNoRows ==
    /\ pc = "processed"
    /\ script \in FallbackScripts
    /\ FrameLen(result) = 0
    /\ result' = SampleData(script)
    /\ sample_count' = sample_count + 1
    /\ pc' = "ready"
    /\ UNCHANGED <<io_log, script, api, quicksort_ties, launches, payloads_data, rockets_data,
                   launchpads_data, exc, completed>>

PayloadRangeLabels == <<"Very Light", "Light", "Medium", "Heavy", "Very Heavy">>

MinOf(S) == CHOOSE m \in S : \A n \in S : m <= n

\* pd.cut(column, bins=5, labels=...): five right-closed intervals of equal
\* width from the column's minimum to its maximum (the minimum belongs to the
\* first); a column with one distinct value has it in the middle interval.
cut(x, S) ==
    LET mn == MinOf(S)
        mx == MaxOf(S)
        bin == IF mn = mx THEN 3
               ELSE IF x = mn THEN 1
               ELSE CHOOSE k \in 1..5 : /\ (k - 1) * (mx - mn) < 5 * (x - mn)
                                        /\ 5 * (x - mn) <= k * (mx - mn)
    IN  JStr(PayloadRangeLabels[bin])

\* A frame with one more column; for the sample frame, whose rows are not
\* modelled, only the column's name is kept.
FrameWithColumn(df, name, rows) ==
    [k \in DOMAIN df \cup {"columns_added"} |->
        IF k = "rows" THEN rows
        ELSE IF k = "columns_added" THEN {name}
        ELSE df[k]]

\* `df['PayloadRange'] = pd.cut(df['PayloadMass'], bins=5, labels=[...])` on
\* the frame the caller passed.
create_payload_analysis_plots(df) ==
    LET masses == {df.rows[i].PayloadMass : i \in 1..Len(df.rows)}
        Row(r) == [k \in DOMAIN r \cup {"PayloadRange"} |->
                      IF k = "PayloadRange" THEN cut(r.PayloadMass, masses) ELSE r[k]]
    IN  FrameWithColumn(df, "PayloadRange", MapSeq(df.rows, Row))

\* `df['Year'] = pd.to_datetime(df['Date']).dt.year` on the frame the caller
\* passed.
create_detailed_orbit_analysis(df) ==
    LET Row(r) == [k \in DOMAIN r \cup {"Year"} |->
                      IF k = "Year" THEN JNum(Year(r.Date.s)) ELSE r[k]]
    IN  FrameWithColumn(df, "Year", MapSeq(df.rows, Row))

\* The orbits create_success_rate_bar_chart keeps: groupby('Orbit') drops the
\* null keys, 'count' counts the group's non-null Success values, and the
\* groups with Count >= 3 stay.
ChartedOrbits(df) ==
    {df.rows[i].Orbit : i \in {j \in 1..Len(df.rows) :
        /\ df.rows[j].Orbit # JNull
        /\ Cardinality({k \in 1..Len(df.rows) :
                            /\ df.rows[k].Orbit = df.rows[j].Orbit
                            /\ df.rows[k].Success # JNull}) >= 3}}

\* create_success_rate_bar_chart: `success_by_orbit.iloc[-1]` raises IndexError
\* when no orbit is left; each orbit of the 150 sample rows has its three.
create_success_rate_bar_chart(df) ==
    IF df.source = "api" /\ ChartedOrbits(df) = {} THEN "IndexError" ELSE "none"

\* What the first plotting function of __main__ raises on the frame.
first_plot_exc(s, df) ==
    IF s = "spacex_orbit_success_analysis" THEN create_success_rate_bar_chart(df)
    ELSE "none"

\* `if df is not None and len(df) > 0:` the plots, the statistics and the
\* completion message; the second plotting function adds a column to df.
Analyze ==
    /\ pc = "ready"
    /\ script \in FallbackScripts
    /\ FrameLen(result) > 0
    /\ LET e == first_plot_exc(script, result)
       IN  /\ exc' = e
           /\ result' = IF e # "none" THEN result
                        ELSE IF script = "eda_spacex_api"
                             THEN create_payload_analysis_plots(result)
                             ELSE create_detailed_orbit_analysis(result)
           /\ pc' = IF e = "none" THEN "done" ELSE "raised"
           /\ completed' = (e = "none")
    /\ UNCHANGED <<io_log, script, api, quicksort_ties, launches, payloads_data, rockets_data,
                   launchpads_data, sample_count>>

Next ==
    \/ FetchLaunches
    \/ ReturnNoData
    \/ FetchTables
    \/ Process
    \/ ReturnEmpty
    \/ Show
    \/ Plot
    \/ Finish
    \/ SearchPattern
    \/ ProcessApi
    \/ UseSampleNoFetch
    \/ UseSampleNoRows
    \/ Analyze

Spec == Init /\ [][Next]_vars

\* ------------------------------------------------------- a second pass

\* The processing function of the script called once more on the launches and
\* the reference tables the run holds.
NormalizeAgain ==
    /\ pc \in {"processed", "ready"}
    /\ LET df == DataFrameOf(launches)
           r == IF script \in FallbackScripts THEN ProcessedApi(script, launches)
                ELSE IF df.exc # "none" THEN df
                ELSE Processed(script, df.value)
       IN  /\ result' = r.value
           /\ exc' = r.exc
    /\ pc' = "again"
    /\ UNCHANGED <<io_log, script, api, quicksort_ties, launches, payloads_data, rockets_data,
                   launchpads_data, sample_count, completed>>

NextTwice ==
    \/ FetchLaunches
    \/ FetchTables
    \/ Process
    \/ ProcessApi
    \/ NormalizeAgain

\* Runs that fetch, normalize, and normalize the same inputs a second time.
SpecTwice == Init /\ [][NextTwice]_vars

\* ================================================================== claims

\* A processing function has returned a frame built from the API's feed.
HasApiFrame == result.kind = "table" /\ result.source = "api"

\* The run's input events, once fetched.
Events == IF launches.kind = "list" THEN launches.l ELSE <<>>

\* max(mass, 0) with a null mass read as 0.
ClaimMass(m) == IF m.kind = "num" /\ m.n > 0 THEN m.n ELSE 0

\* The sum of max(mass, 0) over every payload reference of the launch that the
\* table resolves.
ClaimTotal(launch, table) ==
    LET refs == IF launch.payloads.kind = "list" THEN launch.payloads.l ELSE <<>>
    IN  SumSeq([i \in 1..Len(refs) |->
                   IF refs[i].kind = "str" /\ refs[i].s \in DOMAIN table
                   THEN IF "mass_kg" \in DOMAIN table[refs[i].s]
                        THEN ClaimMass(table[refs[i].s].mass_kg) ELSE 0
                   ELSE 0])

\* The same sum over the payload objects embedded in the launch.
ClaimEmbeddedTotal(launch) ==
    LET refs == IF "payloads" \in DOMAIN launch /\ launch.payloads.kind = "list"
                THEN launch.payloads.l ELSE <<>>
    IN  SumSeq([i \in 1..Len(refs) |->
                   IF refs[i].kind = "dict" /\ "mass_kg" \in DOMAIN refs[i].d
                   THEN ClaimMass(refs[i].d.mass_kg) ELSE 0])

\* The launch embeds a rocket object whose name holds 'Falcon 9'.
ClaimIsFalcon9(launch) ==
    /\ "rocket" \in DOMAIN launch
    /\ launch.rocket.kind = "dict"
    /\ "name" \in DOMAIN launch.rocket.d
    /\ StrContains(launch.rocket.d.name.s, "Falcon 9")

\* ---------------------------------------------------------------------- C1

C2_TotalIsSumOfResolved ==
    (script = "payload_vs_orbit" /\ HasApiFrame)
        => \A i \in 1..Len(Events) :
               result.all[i].payload_mass = JNum(ClaimTotal(Events[i], payloads_data))

\* C2 amended: where the scripts total the mass (buscar_max_payload_boosters,
\* procesar_datos_para_scatter, process_api_data) the total is the sum of
\* max(mass, 0) over all resolved payloads, null read as 0;
\* payload_vs_orbit's extraer_mass gives the stored mass of the first payload
\* reference only, 0 when the list is null or empty or that reference does
\* not resolve.
C2_TotalWhereSummed ==
    /\ (script \in {"max_payload_boosters", "payload_vs_outcome_scatter"}
            /\ "totals" \in DOMAIN result)
          => /\ Len(result.totals) = Len(Events)
             /\ \A i \in 1..Len(Events) :
                    result.totals[i] = ClaimTotal(Events[i], payloads_data)
             /\ \A i \in 1..Len(result.rows) :
                    \E j \in 1..Len(Events) :
                        /\ Events[j].flight_number = result.rows[i].flight_number
                        /\ result.rows[i].payload_mass =
                               ClaimTotal(Events[j], payloads_data)
    /\ (script = "eda_spacex_api" /\ HasApiFrame)
          => /\ result.totals = MapSeq(SelectSeq(Events, ClaimIsFalcon9),
                                       ClaimEmbeddedTotal)
             /\ \A i \in 1..Len(result.rows) :
                    \E j \in 1..Len(Events) :
                        /\ Events[j].flight_number = result.rows[i].FlightNumber
                        /\ result.rows[i].PayloadMass = ClaimEmbeddedTotal(Events[j])
    /\ (script = "payload_vs_orbit" /\ HasApiFrame)
          => \A i \in 1..Len(Events) :
                 LET refs == Events[i].payloads
                     first == refs.l[1]
                 IN  result.all[i].payload_mass =
                         IF refs.kind = "list" /\ Len(refs.l) > 0
                               /\ first.s \in DOMAIN payloads_data
                         THEN IF "mass_kg" \in DOMAIN payloads_data[first.s]
                              THEN payloads_data[first.s].mass_kg ELSE JNum(0)
                         ELSE JNum(0)

\* C2 witness: a launch with two resolved payloads of 500 and 300 kg totals
\* 800, and one with an unresolved and a resolved 300 kg payload totals 300.
C2_Witness ==
    /\ script = "max_payload_boosters"
    /\ "totals" \in DOMAIN result
    /\ Len(result.totals) = 2
    /\ result.totals[1] = 800
    /\ result.totals[2] = 300
    /\ Events[2].payloads.kind = "list"
    /\ Len(Events[2].payloads.l) = 2
    /\ Events[2].payloads.l[1].s \notin DOMAIN payloads_data

\* ---------------------------------------------------------------------- C3

\* The reference is null, or an id its table does not hold.
Unresolved(ref, table) ==
    ref = JNull \/ (ref.kind = "str" /\ ref.s \notin DOMAIN table)

\* C3: a launch whose launchpad (or rocket) reference is null or an id absent
\* from the table has "Unknown" in every resolved name field of its record;
\* process_api_data has no table, so every bare id is absent.
C3_UnresolvedNamesUnknown ==
    /\ (script = "launch_sites_analysis" /\ HasApiFrame)
          => \A i \in 1..Len(Events) :
                 Unresolved(Events[i].launchpad, launchpads_data)
                     => /\ result.all[i].launch_site_name = Unknown
                        /\ result.all[i].launch_site_full_name = Unknown
                        /\ result.all[i].launch_site_locality = Unknown
                        /\ result.all[i].launch_site_region = Unknown
    /\ (script = "eda_spacex_api" /\ HasApiFrame)
          => \A i \in 1..Len(result.rows) :
                 \A j \in 1..Len(Events) :
                     (/\ Events[j].flight_number = result.rows[i].FlightNumber
                      /\ "launchpad" \in DOMAIN Events[j]
                      /\ Unresolved(Events[j].launchpad, <<>>))
                         => result.rows[i].LaunchSite = Unknown

\* ---------------------------------------------------------------------- C4

ClaimPlace(landing_type) ==
    IF landing_type = JStr("RTLS") THEN "ground pad"
    ELSE IF landing_type = JStr("ASDS") THEN "drone ship"
    ELSE IF landing_type = JStr("Ocean") THEN "ocean"
    ELSE "other"

ClaimLabel(flag, place) ==
    (IF flag THEN "Success" ELSE "Failure") \o " (" \o place \o ")"

ClaimLabels ==
    {ClaimLabel(f, p) : f \in BOOLEAN,
                        p \in {"ground pad", "drone ship", "ocean", "other"}}

\* C4: the landing outcome of a core is one of eight labels fixed by
\* (landing_success, landing_type): RTLS / ASDS / Ocean give the ground pad /
\* drone ship / ocean label of the flag's side, any other type (absent and null
\* included) gives the other label of that side.
C4_LandingClassification ==
    (script = "landing_outcomes_ranking" /\ HasApiFrame)
        => \A i \in 1..Len(result.rows) :
               LET r == result.rows[i]
               IN  /\ r.outcome \in ClaimLabels
                   /\ r.landing_success.kind = "bool"
                         => r.outcome = ClaimLabel(r.landing_success.b,
                                                   ClaimPlace(r.landing_type))

\* C4 witness: one run classified a failed and a successful drone-ship
\* landing, a failed ocean landing, and a successful landing of null type.
C4_Witness ==
    /\ script = "landing_outcomes_ranking"
    /\ HasApiFrame
    /\ \E i, j, k, m \in 1..Len(result.rows) :
          /\ result.rows[i].outcome = "Failure (drone ship)"
          /\ result.rows[j].outcome = "Success (drone ship)"
          /\ result.rows[k].outcome = "Failure (ocean)"
          /\ result.rows[m].landing_type = JNull
          /\ result.rows[m].outcome = "Success (other)"

\* ---------------------------------------------------------------------- C5

\* The run is over.
Ended == pc \in {"returned", "done", "raised"}

\* C5 as stated: every run whose fetch of the launch feed failed ends with
\* results computed from the substituted sample data.
C5_FeedFailureSubstitutesSample ==
    (~api.launches.ok /\ Ended)
        => /\ completed
           /\ result.kind = "table"
           /\ result.source = "sample"

\* C5 amended: after a failed fetch, eda_spacex_api and
\* spacex_orbit_success_analysis substitute the sample data once and complete
\* on it; every other script's main returns at once with no result; no script
\* raises.
C5_FeedFailureByScript ==
    (~api.launches.ok /\ pc # "start")
        => /\ exc = "none"
           /\ launches = JNull
           /\ IF script \in {"eda_spacex_api", "spacex_orbit_success_analysis"}
              THEN /\ pc \in {"fetched", "ready", "done"}
                   /\ pc \in {"ready", "done"}
                         => /\ result.kind = "table"
                            /\ result.source = "sample"
                            /\ result.length > 0
                            /\ sample_count = 1
                   /\ completed <=> pc = "done"
              ELSE /\ pc \in {"fetched", "returned"}
                   /\ result = NoResult
                   /\ sample_count = 0
                   /\ ~completed

\* C5 witness: eda_spacex_api completed on the sample data after a failed fetch.
C5_Witness ==
    /\ script = "eda_spacex_api"
    /\ ~api.launches.ok
    /\ pc = "done"
    /\ completed
    /\ result.kind = "table"
    /\ result.source = "sample"

\* ---------------------------------------------------------------------- C6

\* The position in the feed of the launch with this flight number.
PosOf(flight_number) ==
    CHOOSE j \in 1..Len(Events) : Events[j].flight_number = flight_number

\* C6 as stated: the flight numbers of the output records are the flight
\* numbers of the input events, in the same order.
C6_SameFlightNumberSequence ==
    (script \in {"payload_vs_outcome_scatter", "launch_sites_cca",
                 "failed_landings_2015"} /\ HasApiFrame)
        => FlightNumbers(result.rows) = FlightNumbers(Events)

\* C6 amended: procesar_datos_para_scatter and buscar_sitios_cca keep the
\* relative input order of the records they keep;
\* buscar_aterrizajes_fallidos_2015 orders its records by ascending date
\* string, in input order among equal dates.
C6_OrderOfKeptRecords ==
    /\ (script \in {"payload_vs_outcome_scatter", "launch_sites_cca"} /\ HasApiFrame)
          => \A i, j \in 1..Len(result.rows) :
                 i < j => PosOf(result.rows[i].flight_number)
                              < PosOf(result.rows[j].flight_number)
    /\ (script = "failed_landings_2015" /\ HasApiFrame)
          => \A i, j \in 1..Len(result.rows) :
                 i < j => /\ StrLeq(result.rows[i].date_utc.s, result.rows[j].date_utc.s)
                          /\ result.rows[i].date_utc = result.rows[j].date_utc
                                => PosOf(result.rows[i].flight_number)
                                       <= PosOf(result.rows[j].flight_number)

\* C6 witness: buscar_aterrizajes_fallidos_2015 returned two records in the
\* reverse of their input order.
C6_Witness ==
    /\ script = "failed_landings_2015"
    /\ HasApiFrame
    /\ Len(result.rows) = 2
    /\ PosOf(result.rows[1].flight_number) > PosOf(result.rows[2].flight_number)

\* ---------------------------------------------------------------------- C7

\* C7: whatever fields of the launches and of the records they refer to are
\* null or absent, buscar_aterrizajes_fallidos_2015 and calcular_payload_nasa
\* finish on a non-empty feed without raising.
C7_NullFieldsNeverRaise ==
    (script \in {"nasa_payload_mass", "failed_landings_2015"} /\ Len(Events) > 0)
        => exc = "none"

\* ---------------------------------------------------------------------- C9

\* An instant of this century as one number that grows with time.
ClaimInstant(y, mo, d, h, mi, sec) ==
    (((((y - 2000) * 12 + mo) * 31 + d) * 24 + h) * 60 + mi) * 60 + sec

\* The instant of a feed timestamp "YYYY-MM-DDThh:mm:ss.000Z".
ClaimTime(s) ==
    ClaimInstant(ToInt(SubSeq(s, 1, 4)), ToInt(SubSeq(s, 6, 7)), ToInt(SubSeq(s, 9, 10)),
                 ToInt(SubSeq(s, 12, 13)), ToInt(SubSeq(s, 15, 16)),
                 ToInt(SubSeq(s, 18, 19)))

ClaimStart == ClaimInstant(2010, 6, 4, 0, 0, 0)
ClaimEnd == ClaimInstant(2017, 3, 20, 0, 0, 0)

ClaimInRange(launch) ==
    ClaimStart <= ClaimTime(launch.date_utc.s) /\ ClaimTime(launch.date_utc.s) <= ClaimEnd

\* The launches of the feed with this timestamp are all kept / all dropped.
AllKept(date) ==
    \A i \in 1..Len(Events) :
        Events[i].date_utc.s = date
            => \E k \in 1..Len(result.df_filtered) :
                   result.df_filtered[k] = Events[i].flight_number
AllDropped(date) ==
    \A i \in 1..Len(Events) :
        Events[i].date_utc.s = date
            => \A k \in 1..Len(result.df_filtered) :
                   result.df_filtered[k] # Events[i].flight_number

\* C9: the date filter of clasificar_resultados_aterrizaje keeps exactly the
\* launches whose timestamp t has 2010-06-04 <= t <= 2017-03-20, a launch on
\* either bound included; of launches dated 2010-01-01, 2015-06-15 and
\* 2018-01-01 only the 2015-06-15 one is kept.
C9_DateRangeInclusive ==
    (script = "landing_outcomes_ranking" /\ HasApiFrame)
        => /\ result.df_filtered = FlightNumbers(SelectSeq(Events, ClaimInRange))
           /\ AllDropped("2010-01-01T00:00:00.000Z")
           /\ AllKept("2015-06-15T10:00:00.000Z")
           /\ AllDropped("2018-01-01T00:00:00.000Z")
           /\ AllKept("2010-06-04T00:00:00.000Z")
           /\ AllKept("2017-03-20T00:00:00.000Z")

\* C9 witness: of a launch on the end bound and a launch of 2018 the filter
\* kept the first alone.
C9_Witness ==
    /\ script = "landing_outcomes_ranking"
    /\ HasApiFrame
    /\ \E i, j \in 1..Len(Events) :
          /\ Events[i].date_utc.s = "2017-03-20T00:00:00.000Z"
          /\ Events[j].date_utc.s = "2018-01-01T00:00:00.000Z"
          /\ result.df_filtered = <<Events[i].flight_number>>

\* ---------------------------------------------------------------------- C8

\* The feed is not empty and leaves no usable record: no launchpad resolves,
\* no launch has a success flag, or no core lies in the date range.
EmptyRecordSet ==
    /\ Len(Events) > 0
    /\ CASE script = "highest_success_ratio_piechart" ->
                \A i \in 1..Len(Events) :
                    Unresolved(Events[i].launchpad,
                               IF api.launchpads.ok THEN api.launchpads.table ELSE <<>>)
         [] script = "mission_outcomes" ->
                \A i \in 1..Len(Events) : Events[i].success = JNull
         [] script = "landing_outcomes_ranking" ->
                \A i \in 1..Len(Events) :
                    \/ ~ClaimInRange(Events[i])
                    \/ Events[i].cores = JNull
                    \/ Events[i].cores = JList(<<>>)
         [] OTHER -> FALSE

\* C8: a run whose record set is empty raises nothing in its aggregation and
\* report steps.
C8_EmptyRecordSetCompletes == EmptyRecordSet => exc = "none"

\* ---------------------------------------------------------------------- C10

\* The orbit of the first payload reference: "Unknown" when the list is null
\* or empty, the reference does not resolve or the payload has no orbit key;
\* the stored value otherwise.
ClaimFirstOrbit(launch, table) ==
    LET refs == launch.payloads
    IN  IF refs.kind = "list" /\ Len(refs.l) > 0 /\ refs.l[1].s \in DOMAIN table
        THEN IF "orbit" \in DOMAIN table[refs.l[1].s]
             THEN table[refs.l[1].s].orbit ELSE Unknown
        ELSE Unknown

\* The payloads of a launch that process_orbit_data can read: embedded
\* objects, and ids whose details the API serves.
ClaimUsablePayloads(launch) ==
    LET refs == IF "payloads" \in DOMAIN launch THEN launch.payloads.l ELSE <<>>
    IN  {i \in 1..Len(refs) :
            \/ refs[i].kind = "dict"
            \/ refs[i].kind = "str" /\ api.payloads.ok
                  /\ refs[i].s \in DOMAIN api.payloads.table}

\* C10 as stated: no launch is split into one orbit row per payload: the
\* orbit rows of flight_vs_orbit and of process_orbit_data have distinct
\* flight numbers.
C10_NeverOneRowPerPayload ==
    /\ (script = "flight_vs_orbit" /\ HasApiFrame)
          => \A i, j \in 1..Len(result.rows) :
                 i # j => result.rows[i].flight_number # result.rows[j].flight_number
    /\ (script = "spacex_orbit_success_analysis" /\ HasApiFrame)
          => \A i, j \in 1..Len(result.rows) :
                 i # j => result.rows[i].FlightNumber # result.rows[j].FlightNumber

\* C10 amended: flight_vs_orbit and payload_vs_orbit give each launch one row
\* whose orbit is that of its first payload reference only, and then drop the
\* rows whose orbit is "Unknown"; process_orbit_data gives a launch one row
\* per payload it can read.
C10_FirstPayloadOrbit ==
    /\ (script \in {"flight_vs_orbit", "payload_vs_orbit"} /\ HasApiFrame)
          => /\ Len(result.all) = Len(Events)
             /\ \A i \in 1..Len(Events) :
                    /\ result.all[i].flight_number = Events[i].flight_number
                    /\ result.all[i].orbit_type =
                           ClaimFirstOrbit(Events[i], payloads_data)
             /\ FlightNumbers(result.rows) =
                    FlightNumbers(SelectSeq(Events, LAMBDA l :
                                      ClaimFirstOrbit(l, payloads_data) # Unknown))
    /\ (script = "spacex_orbit_success_analysis" /\ HasApiFrame)
          => \A j \in 1..Len(Events) :
                 Cardinality({i \in 1..Len(result.rows) :
                                 result.rows[i].FlightNumber = Events[j].flight_number})
                     = Cardinality(ClaimUsablePayloads(Events[j]))

\* C10 witness: flight_vs_orbit gave a launch whose payloads are p2 (GTO) and
\* p1 (LEO), both resolved, the single orbit GTO.
C10_Witness ==
    /\ script = "flight_vs_orbit"
    /\ HasApiFrame
    /\ \E i \in 1..Len(Events) :
          /\ Events[i].payloads = Ids(<<"p2", "p1">>)
          /\ payloads_data = PayloadsFull
          /\ result.all[i].orbit_type = JStr("GTO")
          /\ Cardinality({k \in 1..Len(result.rows) :
                             result.rows[k].flight_number = Events[i].flight_number}) = 1

\* ---------------------------------------------------------------------- C11

\* The raw flag read as the claim reads it: true only for a flag that is
\* present and true.
ClaimSuccess(launch) == JBool("success" \in DOMAIN launch /\ launch.success = JBool(TRUE))

\* C11: every record's success flag is a boolean, true for a raw true and
\* false for a raw false, null or absent flag, and a launch whose flag is
\* null or absent keeps its record.
C11_SuccessIsBoolean ==
    /\ (script = "flight_vs_orbit" /\ HasApiFrame)
          => \A i \in 1..Len(Events) : result.all[i].success = ClaimSuccess(Events[i])
    /\ (script = "eda_spacex_api" /\ HasApiFrame)
          => \A i \in 1..Len(result.rows) :
                 \A j \in 1..Len(Events) :
                     Events[j].flight_number = result.rows[i].FlightNumber
                         => result.rows[i].Success = ClaimSuccess(Events[j])
    /\ (script = "mission_outcomes" /\ HasApiFrame)
          => FlightNumbers(result.rows) = FlightNumbers(Events)

\* ------------------------------------------------------------------ C12

NonListFeed == api.launches.ok /\ api.launches.body.kind # "list"

\* C12: a feed whose top level is not a list of launches is a hard failure:
\* once the run is past its processing step it has raised, and no table of
\* records has been produced.
C12_NonListFeedRaises ==
    (NonListFeed /\ pc \notin {"start", "fetched", "tables"})
        => pc = "raised" /\ result.kind = "none"

\* ------------------------------------------------------------------ C13

\* The entries a reference list resolves to, one reference at a time.
RECURSIVE ClaimResolved(_, _)
ClaimResolved(ids, table) ==
    IF Len(ids) = 0 THEN <<>>
    ELSE LET rest == ClaimResolved(Tail(ids), table)
             id == Head(ids).s
         IN  IF id \in DOMAIN table
             THEN <<[mass_kg |-> Get(table[id], "mass_kg", JNum(0)),
                     customers |-> Get(table[id], "customers", JList(<<>>)),
                     name |-> Get(table[id], "name", Unknown)]>> \o rest
             ELSE rest

ClaimRefs(launch) == IF launch.payloads.kind = "list" THEN launch.payloads.l ELSE <<>>

ClaimAllMissing(launch, table) ==
    /\ Len(ClaimRefs(launch)) > 0
    /\ \A k \in 1..Len(ClaimRefs(launch)) : ClaimRefs(launch)[k].s \notin DOMAIN table

\* C13: the resolved payloads of a launch are the table's entries for its
\* references, in the order of the references, without the references the
\* table lacks; when the table has none of them the resolved sequence is
\* empty and the launch's total payload mass is 0.
C13_ResolvedInReferenceOrder ==
    /\ (script = "nasa_payload_mass" /\ HasApiFrame)
          => \A i \in 1..Len(result.df_successful) :
                 \A j \in 1..Len(Events) :
                     Events[j].flight_number = result.df_successful[i]
                         => result.payload_info[i]
                                = ClaimResolved(ClaimRefs(Events[j]), payloads_data)
    /\ (script = "max_payload_boosters" /\ pc = "processed")
          => \A j \in 1..Len(Events) :
                 ClaimAllMissing(Events[j], payloads_data) => result.totals[j] = 0

\* A NASA run that resolved two payloads in reference order next to a launch
\* whose every reference is missing.
C13_Witness ==
    /\ script = "nasa_payload_mass" /\ HasApiFrame
    /\ \E i, k \in 1..Len(result.payload_info) :
          /\ Len(result.payload_info[i]) = 2
          /\ result.payload_info[i][1].name = JStr("CRS-1")
          /\ result.payload_info[i][2].name = JStr("SES-8")
          /\ result.payload_info[k] = <<>>
          /\ \E j \in 1..Len(Events) :
                /\ Events[j].flight_number = result.df_successful[k]
                /\ ClaimAllMissing(Events[j], payloads_data)

\* ------------------------------------------------------------------ C14

\* The feed is the single launch 1 of rocket "r1" with payloads ["p1"] and
\* success true, and the processing step has run on it.
ClaimSingleEvent ==
    /\ pc \notin {"start", "fetched", "tables", "raised"}
    /\ Len(Events) = 1
    /\ Events[1].flight_number = JNum(1)
    /\ Events[1].rocket = JStr("r1")
    /\ Events[1].payloads = JList(<<JStr("p1")>>)
    /\ Events[1].success = JBool(TRUE)

ClaimPayloadP1 ==
    /\ "p1" \in DOMAIN payloads_data
    /\ payloads_data["p1"].mass_kg = JNum(500)
    /\ "orbit" \in DOMAIN payloads_data["p1"]
    /\ payloads_data["p1"].orbit = JStr("LEO")

ClaimRocketR1 == "r1" \in DOMAIN rockets_data /\ rockets_data["r1"].name = JStr("Falcon 9")

\* C14: the single launch {1, rocket "r1", payloads ["p1"], success true} with
\* rocket r1 named "Falcon 9" and payload p1 of 500 kg in orbit "LEO" gives
\* exactly one record, with rocket name "Falcon 9", total mass 500, orbit
\* "LEO" and success true.
C14_SingleEventRecord ==
    /\ (script = "max_payload_boosters" /\ ClaimSingleEvent /\ ClaimPayloadP1
            /\ ClaimRocketR1)
          => /\ result.kind = "table"
             /\ Len(result.rows) = 1
             /\ result.rows[1].flight_number = JNum(1)
             /\ result.rows[1].rocket_name = JStr("Falcon 9")
             /\ result.rows[1].payload_mass = 500
             /\ result.rows[1].success = JBool(TRUE)
    /\ (script = "flight_vs_orbit" /\ ClaimSingleEvent /\ ClaimPayloadP1)
          => /\ result.kind = "table"
             /\ Len(result.rows) = 1
             /\ result.rows[1].flight_number = JNum(1)
             /\ result.rows[1].orbit_type = JStr("LEO")
             /\ result.rows[1].success = JBool(TRUE)

\* The run of max_payload_boosters on the single launch has finished.
C14_Witness ==
    /\ script = "max_payload_boosters"
    /\ ClaimSingleEvent /\ ClaimPayloadP1 /\ ClaimRocketR1
    /\ pc = "done"
    /\ Len(result.max_payload_launches) = 1

\* ------------------------------------------------------------------ C15

ClaimHasTotals == script \in {"payload_vs_outcome_scatter", "max_payload_boosters"}
                      /\ "totals" \in DOMAIN result

\* C15: in every reachable state the payload mass of every normalized launch
\* record is a number >= 0, whatever the masses of its payloads (negative,
\* zero or null).
C15_MassNeverNegative ==
    /\ ClaimHasTotals
          => \A i \in 1..Len(result.totals) : result.totals[i] >= 0
    /\ (script = "payload_vs_orbit" /\ HasApiFrame)
          => \A i \in 1..Len(result.rows) :
                 /\ result.rows[i].payload_mass.kind = "num"
                 /\ result.rows[i].payload_mass.n >= 0

\* ------------------------------------------------------------------ C16

ClaimIsObject(ref) == ref.kind = "dict" /\ "name" \in DOMAIN ref.d

\* The feed has a launch whose rocket reference (in a script that resolves
\* rockets) or launchpad reference (in one that resolves launchpads) is an
\* embedded object.
ClaimEmbeddedRef ==
    \E j \in 1..Len(Events) :
        \/ script \in UsesRockets /\ ClaimIsObject(Events[j].rocket)
        \/ script \in UsesLaunchpads /\ ClaimIsObject(Events[j].launchpad)

\* C16: a rocket or launchpad reference that is an embedded object is
\* accepted like an id: the record carries the object's own name and the
\* resolution raises nothing.
C16_EmbeddedObjectAccepted ==
    /\ (script = "eda_spacex_api" /\ HasApiFrame)
          => \A i \in 1..Len(result.rows) :
                 \A j \in 1..Len(Events) :
                     Events[j].flight_number = result.rows[i].FlightNumber
                         => /\ ClaimIsObject(Events[j].rocket)
                                  => result.rows[i].Rocket = Events[j].rocket.d.name
                            /\ ClaimIsObject(Events[j].launchpad)
                                  => result.rows[i].LaunchSite = Events[j].launchpad.d.name
    /\ ClaimEmbeddedRef => exc # "TypeError"

\* ------------------------------------------------------------------ C17

IsRequest(e) == StartsWith(e, "GET ")

Count(url) == Cardinality({i \in DOMAIN io_log : io_log[i] = url})

ClaimRefsOf(launch) ==
    IF "payloads" \in DOMAIN launch /\ launch.payloads.kind = "list"
    THEN launch.payloads.l ELSE <<>>

\* How many references of the feed are the string id.
ClaimRefCount(id) ==
    Cardinality(UNION {{<<j, k>> : k \in {k \in 1..Len(ClaimRefsOf(Events[j])) :
                                              ClaimRefsOf(Events[j])[k] = JStr(id)}} :
                          j \in 1..Len(Events)})

\* C17 as stated: no request is issued twice within a run.
C17_EachRequestAtMostOnce ==
    \A i, j \in DOMAIN io_log :
        (i < j /\ IsRequest(io_log[i])) => io_log[i] # io_log[j]

\* C17, amended: every fetch function issues one request per call and never
\* a second one after a failure.  The launches feed and each reference table
\* are requested at most once per run, except that launch_sites_pattern
\* requests the launchpads once in each of its three searches; once the
\* launches request has failed nothing else is requested, and the fallback
\* scripts go on to finish with the sample data.  Payload details are
\* requested once per string reference of the feed, so an id that n launches
\* reference is requested n times.
C17_OneRequestPerCall ==
    /\ \A url \in {"/launches", "/payloads", "/rockets", "/launchpads"} :
           Count(Request(url)) <= IF script \in PatternScripts /\ url = "/launchpads"
                                  THEN Len(Patterns) ELSE 1
    /\ (script \in PatternScripts /\ pc = "done")
          => Count(Request("/launchpads")) = Len(Patterns)
    /\ (~api.launches.ok /\ pc # "start") => io_log = <<Request("/launches")>>
    /\ (script \in FallbackScripts /\ ~api.launches.ok /\ Ended)
          => pc = "done" /\ result.source = "sample"
    /\ \A id \in {"p1", "p2"} :
           /\ Count(Request("/payloads/" \o id)) <= ClaimRefCount(id)
           /\ (script = "spacex_orbit_success_analysis" /\ launches.kind = "list"
                  /\ pc \in {"processed", "ready", "done"})
                 => Count(Request("/payloads/" \o id)) = ClaimRefCount(id)

\* A finished run that asked twice for the details of payload p1, failed both
\* times and fell back to the sample data.
C17_Witness ==
    /\ script = "spacex_orbit_success_analysis"
    /\ ~api.payloads.ok
    /\ Count(Request("/payloads/p1")) = 2
    /\ pc = "done"
    /\ result.source = "sample"

\* ------------------------------------------------------------------ C18

ClaimRequestAfterNormalize(i, j) ==
    i < j /\ io_log[i] = "normalize" /\ IsRequest(io_log[j])

\* C18 as stated: once the first launch is being normalized no request is
\* issued any more.
C18_NoRequestOnceNormalizing ==
    \A i, j \in DOMAIN io_log : ~ClaimRequestAfterNormalize(i, j)

\* C18, amended: in every script but spacex_orbit_success_analysis and
\* launch_sites_pattern all the requests of the run, the reference tables
\* included, come before the first launch is normalized.
\* spacex_orbit_success_analysis has no reference table: it requests the
\* details of each string payload reference while it normalizes the launch
\* that holds it, and nothing else.  launch_sites_pattern normalizes the
\* launches once per search and requests the launchpads, and nothing else,
\* at the head of each search, before that search's first launch.
C18_RequestsBeforeNormalizing ==
    /\ script \notin {"spacex_orbit_success_analysis"} \cup PatternScripts
          => C18_NoRequestOnceNormalizing
    /\ script \in PatternScripts
          => \A i, j \in DOMAIN io_log :
                 ClaimRequestAfterNormalize(i, j)
                     => /\ io_log[j] = Request("/launchpads")
                        /\ j = Len(io_log) \/ io_log[j + 1] = "normalize"
    /\ \A i \in DOMAIN io_log :
           (io_log[i] = "normalize" /\ UsesTables(script))
               => \E k \in 1..(i - 1) :
                      SubSeq(io_log, k, k + Len(TableRequests(script)) - 1)
                          = TableRequests(script)
    /\ script = "spacex_orbit_success_analysis"
          => \A i, j \in DOMAIN io_log :
                 ClaimRequestAfterNormalize(i, j)
                     => /\ StartsWith(io_log[j], "GET /payloads/")
                        /\ \E k \in i..(j - 1) :
                              /\ io_log[k] = "normalize"
                              /\ \A m \in (k + 1)..j : IsRequest(io_log[m])

\* A finished run of max_payload_boosters: the launches, the payloads, the
\* rockets, then two launches normalized.
C18_Witness ==
    /\ script = "max_payload_boosters"
    /\ pc = "done"
    /\ io_log = <<Request("/launches"), Request("/payloads"), Request("/rockets"),
                  "normalize", "normalize">>

\* ------------------------------------------------------------------ C19

C20_DownstreamLeavesTable ==
    [][(result.kind = "table" /\ pc' \in {"shown", "plotted", "done", "raised"})
          => result' = result]_vars

\* ------------------------------------------------------------------ C21

ClaimTables == <<payloads_data, rockets_data, launchpads_data>>

\* C21: once the reference tables are fetched, no step of the run, the
\* normalization pass included, changes a key or a record of any of them,
\* whether the references of the launches resolve or not.
C21_TablesUnchangedByPass ==
    [][pc = "tables" => ClaimTables' = ClaimTables]_vars

\* A NASA pass over a launch whose payload resolves and a launch whose payload
\* and rocket do not, with both tables still as the API gave them.
C21_Witness ==
    /\ script = "nasa_payload_mass"
    /\ pc = "processed"
    /\ payloads_data = PayloadsFull
    /\ rockets_data = RocketsFull
    /\ \E i, j \in 1..Len(Events) :
          /\ Events[i].payloads = JList(<<JStr("p1")>>)
          /\ Events[i].rocket = JStr("r1")
          /\ Events[j].payloads = JList(<<JStr("p_missing")>>)
          /\ Events[j].rocket = JStr("r_missing")

\* ------------------------------------------------------------------ C22

ClaimHasRanking == "outcome_counts" \in DOMAIN result

ClaimFirstRow(o) ==
    CHOOSE i \in 1..Len(result.rows) :
        /\ result.rows[i].outcome = o
        /\ \A j \in 1..(i - 1) : result.rows[j].outcome # o

\* The ranking lists every distinct outcome of the rows once, with the number
\* of rows that carry it, by descending count; the counts add up to the rows.
ClaimRankedDescending ==
    LET oc == result.outcome_counts
    IN  /\ \A i \in 1..Len(result.rows) :
              \E k \in 1..Len(oc) : oc[k].value = result.rows[i].outcome
        /\ \A k, m \in 1..Len(oc) : oc[k].value = oc[m].value => k = m
        /\ \A k \in 1..Len(oc) :
              /\ oc[k].count >= 1
              /\ oc[k].count = Cardinality({i \in 1..Len(result.rows) :
                                                result.rows[i].outcome = oc[k].value})
        /\ \A k \in 1..(Len(oc) - 1) : oc[k].count >= oc[k + 1].count
        /\ SumSeq([k \in 1..Len(oc) |-> oc[k].count]) = Len(result.rows)

ClaimTiesByFirstOccurrence ==
    LET oc == result.outcome_counts
    IN  \A k \in 1..(Len(oc) - 1) :
            oc[k].count = oc[k + 1].count
                => ClaimFirstRow(oc[k].value) < ClaimFirstRow(oc[k + 1].value)

ClaimHasPrefix(v, prefix) ==
    /\ v.kind = "str"
    /\ Len(v.s) >= Len(prefix)
    /\ \A c \in 1..Len(prefix) : SubSeq(v.s, c, c) = SubSeq(prefix, c, c)

\* rows holds exactly the records of all whose site name has the prefix, in
\* the order they have in all.
ClaimPrefixFiltered(all, rows, prefix) ==
    LET keep == {i \in 1..Len(all) : ClaimHasPrefix(all[i].launch_site_name, prefix)}
    IN  /\ Len(rows) = Cardinality(keep)
        /\ \A k \in 1..Len(rows) :
              \E i \in keep : /\ rows[k] = all[i]
                              /\ Cardinality({m \in keep : m < i}) = k - 1
        /\ ClaimHasPrefix(Unknown, prefix)
              \/ \A k \in 1..Len(rows) : rows[k].launch_site_name # Unknown

\* C23: buscar_sitios_cca and every search of buscar_sitios_patron keep
\* exactly the records whose resolved site name starts with the prefix,
\* compared case-sensitively, in their original order; a record whose site
\* resolved to "Unknown" is kept only if "Unknown" starts with the prefix.
C23_PrefixFilter ==
    /\ (script = "launch_sites_cca" /\ HasApiFrame)
          => ClaimPrefixFiltered(result.all, result.rows, "CCA")
    /\ (script \in PatternScripts /\ HasApiFrame)
          => \A n \in 1..Len(result.searches) :
                 /\ result.searches[n].pattern = Patterns[n]
                 /\ ClaimPrefixFiltered(result.searches[n].all,
                                        result.searches[n].rows, Patterns[n])

\* A finished run of launch_sites_pattern over two launches: the search for
\* CCA met "ccafs slc 40" and kept nothing, the search for CCSFS met two
\* "Unknown" sites and kept nothing, the search for KSC kept the second launch.
C23_Witness ==
    /\ script \in PatternScripts
    /\ pc = "done"
    /\ Len(result.searches) = 3
    /\ Len(result.searches[1].all) = 2
    /\ result.searches[1].all[1].launch_site_name = JStr("ccafs slc 40")
    /\ result.searches[1].rows = <<>>
    /\ \A i \in 1..2 : result.searches[2].all[i].launch_site_name = Unknown
    /\ result.searches[2].rows = <<>>
    /\ result.searches[3].rows = <<result.searches[3].all[2]>>

\* ------------------------------------------------------------------ C24

\* The booster version of a launch: the name of the rocket its reference
\* resolves to.
ClaimBoosterVersion(launch) ==
    IF InTable(launch.rocket, rockets_data)
    THEN Get(rockets_data[launch.rocket.s], "name", Unknown)
    ELSE Unknown

\* The positions of the launches flown by F9 v1.1 with a positive total mass.
ClaimF9v11 ==
    {i \in 1..Len(Events) :
        /\ ClaimBoosterVersion(Events[i]) = JStr("F9 v1.1")
        /\ ClaimTotal(Events[i], payloads_data) > 0}

\* C24: the average that f9_v11_payload_mass reports is the sum of the total
\* payload masses divided by the number of launches, taken over exactly the
\* launches whose booster version is F9 v1.1 and whose total payload mass is
\* positive; without such a launch nothing is reported.
C24_AverageOverF9v11 ==
    (script \in BoosterScripts /\ pc = "processed")
        => IF ClaimF9v11 = {} THEN result.kind = "none"
           ELSE /\ result.kind = "table"
                /\ {result.rows[k].flight_number : k \in 1..Len(result.rows)}
                       = {Events[i].flight_number : i \in ClaimF9v11}
                /\ result.average_payload_mass.count = Cardinality(ClaimF9v11)
                /\ result.average_payload_mass.sum
                       = SumSeq([k \in 1..Len(Events) |->
                                    IF k \in ClaimF9v11
                                    THEN ClaimTotal(Events[k], payloads_data)
                                    ELSE 0])

\* ------------------------------------------------------------------ C25

\* A landing on a ground pad: a return to the launch site.
ClaimGroundPad == JStr("RTLS")

\* C25: every record that first_ground_landing returns is a core that landed
\* successfully on a ground pad, the records are sorted by ascending UTC date,
\* and so the first of them is the earliest one.
C25_SuccessfulGroundPadLandings ==
    (script = "first_ground_landing" /\ HasApiFrame)
        => /\ \A k \in 1..Len(result.rows) :
                 /\ Truthy(result.rows[k].landing_success)
                 /\ result.rows[k].landing_type = ClaimGroundPad
           /\ \A k, m \in 1..Len(result.rows) :
                 k < m => StrLeq(result.rows[k].date_utc.s, result.rows[m].date_utc.s)

\* ------------------------------------------------------------------ C26

\* The cores of a launch that the 2015 list is about: the launch is dated in
\* 2015, the core's landing type is the drone ship (ASDS) and its landing did
\* not succeed (a flag that is false, null or absent, as everywhere in the
\* repository's landing classification).
ClaimFailedDroneShip2015(launch) ==
    IF ~ClaimHasPrefix(launch.date_utc, "2015") \/ launch.cores.kind # "list"
    THEN {}
    ELSE {c \in 1..Len(launch.cores.l) :
             /\ Get(launch.cores.l[c].d, "landing_type", JStr("")) = JStr("ASDS")
             /\ Get(launch.cores.l[c].d, "landing_success", JBool(FALSE))
                    \in {JBool(FALSE), JNull}}

ClaimSiteName(launch) ==
    IF InTable(launch.launchpad, launchpads_data)
    THEN Get(launchpads_data[launch.launchpad.s], "name", Unknown)
    ELSE Unknown

\* C26: failed_landings_2015 lists exactly the failed drone-ship landings of
\* 2015: one record per core of a 2015 launch whose landing type is ASDS and
\* whose landing failed, and no other; each record carries the resolved
\* booster version and launch site name of its launch; the records are sorted
\* by ascending UTC date.
C26_FailedDroneShipLandings2015 ==
    (script = "failed_landings_2015" /\ HasApiFrame)
        => /\ \A i \in 1..Len(Events) :
                 Cardinality({k \in 1..Len(result.rows) :
                                 result.rows[k].flight_number = Events[i].flight_number})
                     = Cardinality(ClaimFailedDroneShip2015(Events[i]))
           /\ \A k \in 1..Len(result.rows) :
                 \E i \in 1..Len(Events) :
                     /\ result.rows[k].flight_number = Events[i].flight_number
                     /\ result.rows[k].date_utc = Events[i].date_utc
                     /\ result.rows[k].landing_type = JStr("ASDS")
                     /\ ~Truthy(result.rows[k].landing_success)
                     /\ result.rows[k].rocket_name = ClaimBoosterVersion(Events[i])
                     /\ result.rows[k].launch_site_name = ClaimSiteName(Events[i])
           /\ \A k, m \in 1..Len(result.rows) :
                 k < m => StrLeq(result.rows[k].date_utc.s, result.rows[m].date_utc.s)

\* Two launches of 2015 given latest first: a failed drone-ship landing from
\* an unresolved site, and a drone-ship landing that succeeded next to a
\* failed ocean landing; only the first is listed, with its booster version.
C26_Witness ==
    /\ script = "failed_landings_2015"
    /\ pc = "processed"
    /\ rockets_data = RocketsFull
    /\ Len(Events) = 2
    /\ Events[1].date_utc = JStr("2015-06-15T10:00:00.000Z")
    /\ Events[2].date_utc = JStr("2015-04-14T20:10:00.000Z")
    /\ Len(result.rows) = 1
    /\ result.rows[1].flight_number = Events[2].flight_number
    /\ result.rows[1].rocket_name = JStr("Falcon 9")
    /\ result.rows[1].launch_site_name = Unknown

\* ------------------------------------------------------------------ C27

\* The fetched data gave no frame to plot: the fetch returned nothing, or the
\* processing of what it returned came back with no rows.
ClaimNothingToPlot ==
    \/ ~Truthy(launches)
    \/ LET r == ProcessedApi(script, launches)
       IN  r.exc = "none" /\ FrameLen(r.value) = 0

\* The sample data is generated at most once; once main is past its choice
\* of the data it has been generated exactly when there was nothing to plot;
\* the plots and statistics have run only on a frame with rows.
ClaimSampleRule ==
    script \in FallbackScripts
        => /\ sample_count <= 1
           /\ pc \in {"start", "fetched", "processed"} => sample_count = 0
           /\ pc \in {"ready", "done"} => (sample_count = 1 <=> ClaimNothingToPlot)
           /\ pc = "done" => FrameLen(result) > 0

\* C27: in eda_spacex_api and spacex_orbit_success_analysis the sample data
\* is generated at most once per run, and exactly when the fetch returned
\* nothing or the processing produced no rows; the plot and statistics steps
\* run only on a non-empty frame, and a run that starts them ends with the
\* completion message printed.
C27_SampleOnceThenCompletion ==
    [][/\ ClaimSampleRule'
       /\ (script \in FallbackScripts /\ pc = "ready" /\ pc' # "ready")
             => completed']_vars

\* ------------------------------------------------------------------ C28

\* The scripts whose main() starts with obtener_datos_spacex().
ClaimMainScripts == ReturnScripts \cup PatternScripts

\* main() returned at once after the failed fetch of the launches: the only
\* request of the run is that fetch, no table was read, nothing was processed,
\* reported or drawn, and the success message was not printed.
ClaimReturnedAtOnce ==
    /\ pc \in {"fetched", "returned"}
    /\ io_log = <<Request("/launches")>>
    /\ payloads_data = <<>> /\ rockets_data = <<>> /\ launchpads_data = <<>>
    /\ result = NoResult
    /\ exc = "none"
    /\ ~completed

\* A reference table the script requested and did not get.
ClaimTableFailed ==
    \/ script \in UsesPayloads /\ ~api.payloads.ok
    \/ script \in UsesRockets /\ ~api.rockets.ok
    \/ script \in UsesLaunchpads /\ ~api.launchpads.ok

\* The tables that failed are empty.
ClaimFailedTablesEmpty ==
    /\ (script \in UsesPayloads /\ ~api.payloads.ok) => payloads_data = <<>>
    /\ (script \in UsesRockets /\ ~api.rockets.ok) => rockets_data = <<>>
    /\ (script \in UsesLaunchpads /\ ~api.launchpads.ok) => launchpads_data = <<>>

\* The run stopped on an exception that the launches themselves did not
\* cause: the feed has launches, and the exception is not the TypeError of a
\* reference that is an embedded object.
ClaimStoppedOnTables ==
    pc = "raised" /\ Len(Events) > 0 /\ exc # "TypeError"

ClaimLaunchFetchFailureReturns ==
    (script \in ClaimMainScripts /\ ~api.launches.ok /\ pc # "start")
        => ClaimReturnedAtOnce

ClaimTableFailureGoesOn ==
    (script \in ReturnScripts /\ ClaimTableFailed /\ launches # JNull
        /\ pc \notin {"start", "fetched"})
        => ClaimFailedTablesEmpty /\ ~ClaimStoppedOnTables

\* C28: in every script whose main() calls obtener_datos_spacex, a failed
\* fetch of the launches makes main() return at once: no reference table is
\* fetched, nothing is processed, reported or drawn, and the success message
\* is not printed; a failed fetch of a reference table gives an empty table
\* and the run goes on instead of stopping.
C28_FetchFailures ==
    ClaimLaunchFetchFailureReturns /\ ClaimTableFailureGoesOn

\* ------------------------------------------------------------------ C29

\* The total payload mass of each launch of the feed, in input order.
ClaimTotals == [i \in 1..Len(Events) |-> ClaimTotal(Events[i], payloads_data)]

\* buscar_max_payload_boosters has returned.
ClaimMaxReturned == script = "max_payload_boosters" /\ "totals" \in DOMAIN result

\* The positions of the feed whose total is m, ascending.
ClaimPositionsWith(m) ==
    SelectSeq([i \in 1..Len(Events) |-> i], LAMBDA i : ClaimTotals[i] = m)

\* C29: buscar_max_payload_boosters returns (None, None) when no launch has a
\* positive total payload mass; otherwise it returns the maximum M of the
\* launches' totals with exactly the launches whose total is M, every tie, in
\* input order: the list is not empty and every launch left out has a total
\* strictly less than M.
C29_MaxPayloadLaunches ==
    ClaimMaxReturned
        => /\ (\A i \in 1..Len(Events) : ClaimTotals[i] <= 0) => result.kind = "none"
           /\ (\E i \in 1..Len(Events) : ClaimTotals[i] > 0)
                 => /\ result.kind = "table"
                    /\ \E i \in 1..Len(Events) : ClaimTotals[i] = result.max_payload_mass
                    /\ \A i \in 1..Len(Events) : ClaimTotals[i] <= result.max_payload_mass
                    /\ Len(result.max_payload_launches) > 0
                    /\ [k \in 1..Len(result.max_payload_launches) |->
                           result.max_payload_launches[k].flight_number]
                         = [k \in 1..Len(ClaimPositionsWith(result.max_payload_mass)) |->
                               Events[ClaimPositionsWith(result.max_payload_mass)[k]]
                                   .flight_number]
                    /\ \A k \in 1..Len(result.max_payload_launches) :
                           result.max_payload_launches[k].payload_mass
                               = result.max_payload_mass
                    /\ \A i \in 1..Len(Events) :
                           (\A k \in 1..Len(result.max_payload_launches) :
                                result.max_payload_launches[k].flight_number
                                    # Events[i].flight_number)
                               => ClaimTotals[i] < result.max_payload_mass

\* Two launches with different payload lists tie at the maximum and both are
\* returned, first launch first.
C29_Witness ==
    /\ ClaimMaxReturned
    /\ result.kind = "table"
    /\ Len(Events) = 2
    /\ Events[1].payloads # Events[2].payloads
    /\ Len(result.max_payload_launches) = 2
    /\ result.max_payload_launches[1].flight_number = Events[1].flight_number
    /\ result.max_payload_launches[2].flight_number = Events[2].flight_number

\* ------------------------------------------------------------------ C30

\* The report of payload_vs_outcome_scatter has been printed.
ClaimReported ==
    /\ script = "payload_vs_outcome_scatter"
    /\ pc \in {"shown", "plotted", "done"}

\* The number of the range a mass falls in: [0,1000), [1000,3000),
\* [3000,6000), [6000,10000), 10000 or more.
ClaimRangeOf(m) ==
    IF m < 0 THEN 0
    ELSE IF m < 1000 THEN 1
    ELSE IF m < 3000 THEN 2
    ELSE IF m < 6000 THEN 3
    ELSE IF m < 10000 THEN 4
    ELSE 5

ClaimStats == mostrar_estadisticas_rangos(result)

\* C30: the five payload ranges of payload_vs_outcome_scatter partition the
\* launches of the processed table: every launch of the table has a total
\* payload mass > 0 and is counted in exactly one range, the one its mass
\* falls in, so that the per-range counts sum to the table's length, and in
\* every range successes plus failures is the range's total.
C30_RangesPartition ==
    ClaimReported
        => /\ \A i \in 1..Len(result.rows) : result.rows[i].payload_mass > 0
           /\ \A k \in 1..5 :
                 /\ ClaimStats[k].total
                      = Cardinality({i \in 1..Len(result.rows) :
                                        ClaimRangeOf(result.rows[i].payload_mass) = k})
                 /\ ClaimStats[k].success_count + ClaimStats[k].failure_count
                      = ClaimStats[k].total
                 /\ Len(crear_scatter_plot_interactivo(result)[k]) = ClaimStats[k].total
           /\ SumSeq([k \in 1..5 |-> ClaimStats[k].total]) = Len(result.rows)
           /\ \A i \in 1..Len(result.rows) :
                 Cardinality({k \in 1..5 :
                                 \E j \in 1..Len(crear_scatter_plot_interactivo(result)[k]) :
                                     crear_scatter_plot_interactivo(result)[k][j]
                                         = result.rows[i].flight_number}) = 1

\* A report on two launches: one of exactly 20000 kg that succeeded, counted
\* in the last range, and one of 9999 kg that failed, counted in the fourth.
C30_Witness ==
    /\ ClaimReported
    /\ Len(result.rows) = 2
    /\ result.rows[1].payload_mass = 20000
    /\ result.rows[2].payload_mass = 9999
    /\ ClaimStats[5].total = 1 /\ ClaimStats[5].success_count = 1
    /\ ClaimStats[4].total = 1 /\ ClaimStats[4].failure_count = 1

==============================================================================
